---- MODULE Spec2Model ----
(***************************************************************************)
(* Verification model of the restaurant admin panel: the two cloud         *)
(* functions that reset the closing checklist (functions/src/index.ts),    *)
(* the Recipes localStorage cache and page (components/recipes/Recipes.tsx)*)
(* and the auth/session context with its route guard                      *)
(* (contexts/RestaurantContext.tsx, components/auth/ProtectedRoute.tsx).   *)
(* Each subsystem has its own specification over the shared variables;     *)
(* the variables of the other subsystems stay parked at their initial      *)
(* values.                                                                 *)
(***************************************************************************)
EXTENDS Integers, Sequences, FiniteSets, TLC

VARIABLES
  closing,       \* restaurants/{r}/closinglist documents, by item
  systemLogs,    \* the system_logs collection, in order of insertion
  fn,            \* the running cloud function: its position and locals
  obs,           \* what an observer of one run records about it
  writes,        \* closinglist client writes made so far
  clock,         \* the time of the scheduler: day and hour in UTC, and the season
  triggers,      \* the times at which the schedule has fired, in order
  tabs,          \* per browser tab: the add-restaurant handler running in it
  dash,          \* the Dashboard: its state, its listeners and their pending callbacks
  localStorage,  \* the browser's localStorage: key -> stored string
  now,           \* Date.now()
  ticks,         \* clock advances made so far
  lastCall,      \* the cache helper call that produced this state, with its result
  stored,        \* per restaurant: when the entry in place was written whole, or -1
  userDocs,      \* the users collection: uid -> document
  authUser,      \* auth.currentUser: a uid or "null"
  ctx,           \* the state of RestaurantProvider
  callbacks,     \* the onAuthStateChanged invocations still awaiting something
  switching,     \* the restaurant a pending switchRestaurant call asked for, or "null"
  authFire,      \* the listener's first invocation after a page load is due
  authEvents,    \* sign-ins, sign-outs and page loads so far
  signUp,        \* the SignUp component: its form, its handler's position and locals
  authAccounts,  \* the emails that have an account in Firebase Auth
  signUpDocs,    \* the users documents written by SignUp
  categoriesDocs,\* restaurants/{r}/recipes/categories documents, by restaurant
  recipeDocs,    \* the recipe documents of all restaurants and categories
  nextId,        \* the number of the next document id addDoc generates
  page,          \* the state of the mounted Recipes component
  loads,         \* the loads of the Recipes page still awaiting their reads
  exportFile,    \* the file exportRecipes downloaded last
  recipeOps,     \* operations on recipes and categories so far
  lastWrites,    \* the recipe document writes of the handler that wrote last
  created        \* the recipe the last successful creation wrote, until disturbed

scheduleVars == <<clock, triggers, tabs, dash>>

resetVars == <<closing, systemLogs, fn, obs, writes, clock, triggers, tabs, dash>>

cacheVars == <<localStorage, now, ticks, lastCall, stored>>

signUpVars == <<signUp, authAccounts, signUpDocs>>

sessionVars == <<userDocs, authUser, ctx, callbacks, switching, authFire, authEvents>>

authVars == <<userDocs, authUser, ctx, callbacks, switching, authFire, authEvents,
              signUp, authAccounts, signUpDocs>>

recipeVars == <<categoriesDocs, recipeDocs, nextId, page, loads, exportFile, recipeOps,
                lastWrites, created>>

vars == <<closing, systemLogs, fn, obs, writes, clock, triggers, tabs, dash,
          localStorage, now, ticks, lastCall, stored,
          userDocs, authUser, ctx, callbacks, switching, authFire, authEvents,
          signUp, authAccounts, signUpDocs,
          categoriesDocs, recipeDocs, nextId, page, loads, exportFile, recipeOps,
          lastWrites, created>>

(***************************************************************************)
(* Bounds.                                                                 *)
(***************************************************************************)
MaxItems == 3          \* closinglist documents over all restaurants
MaxClientWrites == 1   \* closinglist client writes in one behaviour
MaxLogs == 1           \* system_logs entries kept in one behaviour
MaxTicks == 3          \* clock advances in one behaviour
MaxAuthEvents == 2     \* sign-ins, sign-outs and page loads in one behaviour
MaxRecipeOps == 2      \* operations on recipes and categories in one behaviour
MaxSignUps == 2        \* submissions of the sign-up form in one behaviour
MaxSwitches == 1       \* changes of restaurantId while the Dashboard is mounted

MaxDays == 3           \* days the scheduler's clock runs after the first one

(***************************************************************************)
(* The restaurants collection. Restaurant ids are free-form document ids   *)
(* typed by people ("test-restaurant", "restaurant2").                     *)
(***************************************************************************)
RestaurantIds == {"cafe", "expiry_cafe"}

\* db.collection("restaurants").get(): the documents in document-id order.
RestaurantDocs == <<"cafe", "expiry_cafe">>

(***************************************************************************)
(* Closing checklist (ClosingItem) documents.                              *)
(***************************************************************************)
ItemIds == 1..MaxItems

\* The restaurant whose closinglist collection holds item i.
ItemRestaurant(i) == RestaurantDocs[((i - 1) % Len(RestaurantDocs)) + 1]

Absent == [exists |-> FALSE, done |-> FALSE, name |-> "", completedAt |-> FALSE]

NewItem(n) == [exists |-> TRUE, done |-> FALSE, name |-> n, completedAt |-> FALSE]

DoneItem(n) == [exists |-> TRUE, done |-> TRUE, name |-> n, completedAt |-> TRUE]

ItemNames == {"mop floor", "lock up"}

\* The run is between its first read and its return.
Running == fn.pc \notin {"idle"}

NoteWrite == /\ writes < MaxClientWrites
             /\ writes' = writes + 1
             /\ obs' = [obs EXCEPT !.clientWrote = Running]

\* Closing.handleSubmit, new item: addDoc with done: false.
ClosingAdd(i, n) ==
  /\ ~closing[i].exists
  /\ closing' = [closing EXCEPT ![i] = NewItem(n)]
  /\ NoteWrite
  /\ UNCHANGED <<systemLogs, fn, scheduleVars, cacheVars, authVars, recipeVars>>

\* Closing.handleSubmit, editing: updateDoc of the name alone.
ClosingEdit(i, n) ==
  /\ closing[i].exists
  /\ closing[i].name # n
  /\ closing' = [closing EXCEPT ![i].name = n]
  /\ NoteWrite
  /\ UNCHANGED <<systemLogs, fn, scheduleVars, cacheVars, authVars, recipeVars>>

\* Closing.handleDelete: deleteDoc.
ClosingDelete(i) ==
  /\ closing[i].exists
  /\ closing' = [closing EXCEPT ![i] = Absent]
  /\ NoteWrite
  /\ UNCHANGED <<systemLogs, fn, scheduleVars, cacheVars, authVars, recipeVars>>

\* The staff client completes an item: done, completedAt and completedBy.
ClosingComplete(i) ==
  /\ closing[i].exists
  /\ ~closing[i].done
  /\ closing' = [closing EXCEPT ![i].done = TRUE, ![i].completedAt = TRUE]
  /\ NoteWrite
  /\ UNCHANGED <<systemLogs, fn, scheduleVars, cacheVars, authVars, recipeVars>>

(***************************************************************************)
(* resetClosingChecklistDaily / resetClosingChecklistManual.               *)
(***************************************************************************)
Idle == [pc |-> "idle", kind |-> "none", restaurantsSnapshot |-> <<>>, i |-> 0,
         closingItemsSnapshot |-> {}, totalUpdatedItems |-> 0,
         error |-> "none", result |-> "none", thrown |-> "none",
         response |-> "none"]

NoObs == [logsAtStart |-> 0, doneAtStart |-> 0, clientWrote |-> FALSE,
          resetItems |-> {}]

DoneCount == Cardinality({i \in ItemIds : closing[i].exists /\ closing[i].done})

\* The trigger fires (pubsub schedule or HTTP request).
Start(k) ==
  /\ fn.pc = "idle"
  /\ Len(systemLogs) < MaxLogs
  /\ fn' = [Idle EXCEPT !.pc = "getRestaurants", !.kind = k]
  /\ obs' = [logsAtStart |-> Len(systemLogs), doneAtStart |-> DoneCount,
             clientWrote |-> FALSE, resetItems |-> {}]
  /\ UNCHANGED <<closing, systemLogs, writes, scheduleVars, cacheVars, authVars, recipeVars>>

\* After the body of the loop for restaurant i: the next restaurant or the log.
AfterRestaurant(f) ==
  IF f.i < Len(f.restaurantsSnapshot)
    THEN [f EXCEPT !.pc = "query", !.i = f.i + 1, !.closingItemsSnapshot = {}]
    ELSE [f EXCEPT !.pc = "log", !.closingItemsSnapshot = {}]

\* Mutant: the error of a step is swallowed and the loop goes on.
ThrowSwallowed(f, msg) == AfterRestaurant(f)

\* A step of the try block throws: control goes to the catch clause.
Throw(f, msg) == [f EXCEPT !.pc = "catch", !.error = msg]

\* await db.collection("restaurants").get()
GetRestaurants(ok) ==
  /\ fn.pc = "getRestaurants"
  /\ fn' = IF ok
             THEN AfterRestaurant([fn EXCEPT !.restaurantsSnapshot = RestaurantDocs])
             ELSE Throw(fn, "restaurants read failed")
  /\ UNCHANGED <<closing, systemLogs, obs, writes, scheduleVars, cacheVars, authVars, recipeVars>>

\* closingItemsRef.where("done", "==", true)
WhereDone(r) ==
  {i \in ItemIds : ItemRestaurant(i) = r /\ closing[i].exists /\ closing[i].done}

\* await closingItemsRef.where("done", "==", true).get(); the commit is skipped
\* when the snapshot is empty.
QueryItems(ok) ==
  /\ fn.pc = "query"
  /\ LET found == WhereDone(fn.restaurantsSnapshot[fn.i]) IN
     fn' = IF ~ok THEN Throw(fn, "closinglist query failed")
           ELSE IF found # {}
             THEN [fn EXCEPT !.pc = "commit", !.closingItemsSnapshot = found]
             ELSE AfterRestaurant(fn)
  /\ UNCHANGED <<closing, systemLogs, obs, writes, scheduleVars, cacheVars, authVars, recipeVars>>

\* Mutant: the update writes nothing.
BatchUpdateNothing(d) == d

\* Mutant: the update also clears the completion stamp.
BatchUpdateClearsCompletion(d) == [d EXCEPT !.done = FALSE, !.completedAt = FALSE]

\* batch.update(doc.ref, {done: false}) applied to one document.
BatchUpdate(d) == [d EXCEPT !.done = FALSE]

\* await batch.commit(): atomic; an update of a document that no longer exists
\* fails the whole batch.
Commit(ok) ==
  /\ fn.pc = "commit"
  /\ IF ok /\ \A i \in fn.closingItemsSnapshot : closing[i].exists
       THEN /\ closing' = [i \in ItemIds |->
                             IF i \in fn.closingItemsSnapshot
                               THEN BatchUpdate(closing[i]) ELSE closing[i]]
            /\ fn' = AfterRestaurant(
                       [fn EXCEPT !.totalUpdatedItems =
                          fn.totalUpdatedItems + Cardinality(fn.closingItemsSnapshot)])
            /\ obs' = [obs EXCEPT !.resetItems = @ \cup fn.closingItemsSnapshot]
       ELSE /\ fn' = Throw(fn, "batch commit failed")
            /\ UNCHANGED <<closing, obs>>
  /\ UNCHANGED <<systemLogs, writes, scheduleVars, cacheVars, authVars, recipeVars>>

\* Mutant: the entry counts the last batch instead of the running total.
SuccessLogLastBatch(f) ==
  [action |-> IF f.kind = "daily" THEN "daily_closing_reset" ELSE "manual_closing_reset",
   totalRestaurants |-> Len(f.restaurantsSnapshot),
   totalItemsReset |-> Cardinality(f.closingItemsSnapshot),
   error |-> "none",
   success |-> TRUE]

\* The entry of a successful run.
SuccessLog(f) ==
  [action |-> IF f.kind = "daily" THEN "daily_closing_reset" ELSE "manual_closing_reset",
   totalRestaurants |-> Len(f.restaurantsSnapshot),
   totalItemsReset |-> f.totalUpdatedItems,
   error |-> "none",
   success |-> TRUE]

\* The entry the daily function writes in its catch clause.
ErrorLog(f) ==
  [action |-> "daily_closing_reset", totalRestaurants |-> 0, totalItemsReset |-> 0,
   error |-> f.error, success |-> FALSE]

\* await db.collection("system_logs").add({... success: true}), then return null
\* (daily) or res.json({success: true, ...}) (manual).
LogSuccess(ok) ==
  /\ fn.pc = "log"
  /\ IF ok
       THEN /\ systemLogs' = Append(systemLogs, SuccessLog(fn))
            /\ fn' = [fn EXCEPT !.pc = "done", !.result = "success",
                        !.response = IF fn.kind = "manual" THEN "200 success" ELSE "none"]
       ELSE /\ fn' = Throw(fn, "system_logs add failed")
            /\ UNCHANGED systemLogs
  /\ UNCHANGED <<closing, obs, writes, scheduleVars, cacheVars, authVars, recipeVars>>

\* catch of the daily function: add the error entry, then throw error. When the
\* add itself throws, its error leaves the function instead.
CatchDaily(ok) ==
  /\ fn.pc = "catch"
  /\ fn.kind = "daily"
  /\ IF ok
       THEN /\ systemLogs' = Append(systemLogs, ErrorLog(fn))
            /\ fn' = [fn EXCEPT !.pc = "done", !.result = "failure", !.thrown = fn.error]
       ELSE /\ fn' = [fn EXCEPT !.pc = "done", !.result = "failure",
                        !.thrown = "system_logs add failed in catch"]
            /\ UNCHANGED systemLogs
  /\ UNCHANGED <<closing, obs, writes, scheduleVars, cacheVars, authVars, recipeVars>>

\* catch of the manual function: res.status(500).json({success: false, error}).
CatchManual ==
  /\ fn.pc = "catch"
  /\ fn.kind = "manual"
  /\ fn' = [fn EXCEPT !.pc = "done", !.result = "failure", !.response = "500 failure"]
  /\ UNCHANGED <<closing, systemLogs, obs, writes, scheduleVars, cacheVars, authVars, recipeVars>>

\* The invocation is over; the function waits for its next trigger.
Finish ==
  /\ fn.pc = "done"
  /\ fn' = Idle
  /\ obs' = NoObs
  /\ UNCHANGED <<closing, systemLogs, writes, scheduleVars, cacheVars, authVars, recipeVars>>

(***************************************************************************)
(* The schedule of resetClosingChecklistDaily (index.ts, lines 6-12):      *)
(* functions.pubsub.schedule("0 2 * * *").timeZone("Europe/Paris"). The    *)
(* clock advances by hours; the schedule names minute 0.                   *)
(***************************************************************************)
\* The hour field of the cron expression "0 2 * * *".
ScheduleHour == 2

\* .timeZone("Europe/Paris")
ScheduleTimeZone == "Europe/Paris"

Seasons == {"winter", "summer"}

\* The hours a time zone is ahead of UTC: Europe/Paris keeps CET (UTC+1) in
\* winter and CEST (UTC+2) in summer.
UtcOffset(timeZone, season) ==
  IF timeZone = "Europe/Paris" THEN (IF season = "summer" THEN 2 ELSE 1) ELSE 0

\* The hour of the day in a time zone at an hour of the day in UTC.
LocalHour(utcHour, timeZone, season) == (utcHour + UtcOffset(timeZone, season)) % 24

\* The scheduler fires at minute 0 of the schedule's hour in the schedule's
\* time zone.
Due(c) == LocalHour(c.hour, ScheduleTimeZone, c.season) = ScheduleHour

\* The clock one hour later.
NextHour(c) ==
  IF c.hour = 23 THEN [c EXCEPT !.day = @ + 1, !.hour = 0] ELSE [c EXCEPT !.hour = @ + 1]

\* The browser tabs in which a user adds restaurants to the account.
Tabs == {"tab1", "tab2"}

\* A tab in which no add-restaurant handler has run.
IdleTab ==
  [pc |-> "idle", user |-> "", newRestaurantId |-> "", updatedRestaurantIds |-> <<>>,
   selectedRestaurantIds |-> <<>>, error |-> "", result |-> "none"]

\* The collections the Dashboard listens to, and those it counts in stats.
Kinds == {"prep", "order", "closing", "fridge", "delivery"}

Counted == {"prep", "order", "closing"}

\* The Dashboard right after mounting for a restaurant: the useState initial
\* values, every listener subscribed and none of them having delivered.
InitialDashboard(restaurantId) ==
  [restaurantId |-> restaurantId, stats |-> [k \in Counted |-> 0],
   recentActivity |-> <<>>, loading |-> TRUE, delivered |-> {}, pending |-> {},
   switches |-> 0]

ParkedSchedule ==
  /\ clock = [day |-> 0, hour |-> 0, season |-> "winter"]
  /\ triggers = <<>>
  /\ tabs = [t \in Tabs |-> IdleTab]
  /\ dash = InitialDashboard("cafe")

\* An hour passes at which the schedule is not due.
HourPasses ==
  /\ clock.day <= MaxDays
  /\ ~Due(NextHour(clock))
  /\ clock' = NextHour(clock)
  /\ UNCHANGED <<triggers, tabs, dash, closing, systemLogs, fn, obs, writes, cacheVars,
                 authVars, recipeVars>>

\* The hour of the schedule comes: the scheduler triggers the function.
ScheduleFires ==
  /\ clock.day <= MaxDays
  /\ Due(NextHour(clock))
  /\ clock' = NextHour(clock)
  /\ triggers' = Append(triggers, [day |-> clock'.day, utcHour |-> clock'.hour])
  /\ UNCHANGED <<tabs, dash, closing, systemLogs, fn, obs, writes, cacheVars, authVars,
                 recipeVars>>

(***************************************************************************)
(* The Recipes cache in localStorage (Recipes.tsx, lines 21-85).           *)
(*                                                                         *)
(* localStorage holds strings. A stored string is kept here by what wrote  *)
(* it: the JSON text of a value, the decimal text of a number, or plain    *)
(* text; parseInt and JSON.parse are applied to it as JavaScript does.     *)
(***************************************************************************)
CACHE_DURATION == 5 * 60 * 1000

\* `recipes_cache_${restaurantId}`
CACHE_KEY(restaurantId) == "recipes_cache_" \o restaurantId

\* `recipes_cache_expiry_${restaurantId}`
CACHE_EXPIRY_KEY(restaurantId) == "recipes_cache_expiry_" \o restaurantId

StorageKeys ==
  {CACHE_KEY(r) : r \in RestaurantIds} \cup {CACHE_EXPIRY_KEY(r) : r \in RestaurantIds}
    \cup {"currentRestaurantId"}

NoValue == [kind |-> "missing"]

\* The null a helper returns.
Null == [kind |-> "null"]

\* JSON.stringify(data)
JSONstringify(data) == [kind |-> "json", data |-> data]

\* expiryTime.toString()
NumberToString(n) == [kind |-> "number", n |-> n]

\* localStorage.getItem(key): null when the key is missing.
GetItem(ls, key) == ls[key]

\* parseInt(text): the number of a decimal text; NaN for JSON text of an object
\* (it starts with a brace) and for text that starts with no digit.
NaN == [isNaN |-> TRUE, n |-> 0]

ParseInt(v) == IF v.kind = "number" THEN [isNaN |-> FALSE, n |-> v.n] ELSE NaN

\* Date.now() > expiryTime: every comparison with NaN is false.
IsAfter(t, expiryTime) == ~expiryTime.isNaN /\ t > expiryTime.n

\* JSON.parse(text) followed by the restaurant check of getCachedData: the
\* cached object when the text is the JSON of an object whose restaurantId is
\* the one asked for. A number has no restaurantId, and text that is not JSON
\* makes JSON.parse throw, which the catch clause turns into null.
ParsedFor(v, restaurantId) ==
  IF v.kind = "json" /\ v.data.restaurantId = restaurantId THEN v.data ELSE Null

\* Mutant: the expiry test is dropped.
GetCachedDataNeverExpires(ls, t, restaurantId) ==
  LET cachedData == GetItem(ls, CACHE_KEY(restaurantId))
      cacheExpiry == GetItem(ls, CACHE_EXPIRY_KEY(restaurantId)) IN
  IF cachedData = NoValue \/ cacheExpiry = NoValue
    THEN [result |-> Null, storage |-> ls]
    ELSE [result |-> ParsedFor(cachedData, restaurantId), storage |-> ls]

\* getCachedData(restaurantId) at time t: what it returns and the storage it
\* leaves.
GetCachedData(ls, t, restaurantId) ==
  LET cachedData == GetItem(ls, CACHE_KEY(restaurantId))
      cacheExpiry == GetItem(ls, CACHE_EXPIRY_KEY(restaurantId)) IN
  IF cachedData = NoValue \/ cacheExpiry = NoValue
    THEN [result |-> Null, storage |-> ls]
  ELSE IF IsAfter(t, ParseInt(cacheExpiry))
    THEN [result |-> Null,
          storage |-> [ls EXCEPT ![CACHE_KEY(restaurantId)] = NoValue,
                                 ![CACHE_EXPIRY_KEY(restaurantId)] = NoValue]]
  ELSE [result |-> ParsedFor(cachedData, restaurantId), storage |-> ls]

\* getCachedData when a localStorage call throws (storage access denied by the
\* browser): the try block ends at that call and the catch clause returns
\* null. failed = "getItem": the first read throws; "removeItem": the second
\* removeItem of the clean-up of an expired entry throws.
GetCachedDataCaught(ls, t, restaurantId, failed) ==
  LET cachedData == GetItem(ls, CACHE_KEY(restaurantId))
      cacheExpiry == GetItem(ls, CACHE_EXPIRY_KEY(restaurantId)) IN
  IF failed = "getItem" THEN [result |-> Null, storage |-> ls]
  ELSE IF /\ failed = "removeItem"
          /\ cachedData # NoValue /\ cacheExpiry # NoValue
          /\ IsAfter(t, ParseInt(cacheExpiry))
    THEN [result |-> Null, storage |-> [ls EXCEPT ![CACHE_KEY(restaurantId)] = NoValue]]
  ELSE GetCachedData(ls, t, restaurantId)

\* setCachedData(data, restaurantId) at time t. A setItem may throw (quota):
\* failed = "data" when the first one throws, "expiry" when the second does;
\* the catch clause swallows the exception.
SetCachedData(ls, t, data, restaurantId, failed) ==
  LET expiryTime == t + CACHE_DURATION
      afterData == [ls EXCEPT ![CACHE_KEY(restaurantId)] = JSONstringify(data)] IN
  IF failed = "data" THEN ls
  ELSE IF failed = "expiry" THEN afterData
  ELSE [afterData EXCEPT ![CACHE_EXPIRY_KEY(restaurantId)] = NumberToString(expiryTime)]

\* clearCache(restaurantId)
ClearCache(ls, restaurantId) ==
  [ls EXCEPT ![CACHE_KEY(restaurantId)] = NoValue,
             ![CACHE_EXPIRY_KEY(restaurantId)] = NoValue]

\* clearCache when a removeItem throws: the helper has no try block, so the
\* exception leaves it at that call. failed = "data": the first removeItem
\* throws; "expiry": the second one does.
ClearCacheThrown(ls, restaurantId, failed) ==
  IF failed = "expiry" THEN [ls EXCEPT ![CACHE_KEY(restaurantId)] = NoValue] ELSE ls

NoCall == [op |-> "none", restaurantId |-> "", result |-> Null, threw |-> FALSE,
           failed |-> "none"]

CacheCategories == <<"mains">>

CachePayloads == {<<>>, <<"soup">>}

\* The object loadAllRecipes caches.
CacheData(recipes, categories, t, restaurantId) ==
  [recipes |-> recipes, categories |-> categories, timestamp |-> t,
   restaurantId |-> restaurantId]

\* A call of getCachedData.
CallGet(r, failed) ==
  LET got == GetCachedDataCaught(localStorage, now, r, failed) IN
  /\ localStorage' = got.storage
  /\ lastCall' = [op |-> "get", restaurantId |-> r, result |-> got.result,
                  threw |-> FALSE, failed |-> failed]
  /\ UNCHANGED <<now, ticks, stored, resetVars, authVars, recipeVars>>

\* A call of setCachedData, as loadAllRecipes makes it.
CallSet(r, recipes, failed) ==
  /\ localStorage' =
       SetCachedData(localStorage, now, CacheData(recipes, CacheCategories, now, r), r, failed)
  /\ lastCall' = [op |-> "set", restaurantId |-> r, result |-> Null, threw |-> FALSE,
                  failed |-> failed]
  /\ stored' = [stored EXCEPT ![r] = IF failed = "none" THEN now
                                     ELSE IF failed = "expiry" THEN -1 ELSE @]
  /\ UNCHANGED <<now, ticks, resetVars, authVars, recipeVars>>

\* A call of clearCache.
CallClear(r, failed) ==
  /\ localStorage' = IF failed = "none" THEN ClearCache(localStorage, r)
                                        ELSE ClearCacheThrown(localStorage, r, failed)
  /\ lastCall' = [op |-> "clear", restaurantId |-> r, result |-> Null,
                  threw |-> failed # "none", failed |-> failed]
  /\ stored' = [stored EXCEPT ![r] = IF failed = "data" THEN @ ELSE -1]
  /\ UNCHANGED <<now, ticks, resetVars, authVars, recipeVars>>

\* Time passes.
Tick(d) ==
  /\ ticks < MaxTicks
  /\ ticks' = ticks + 1
  /\ now' = now + d
  /\ lastCall' = NoCall
  /\ UNCHANGED <<localStorage, stored, resetVars, authVars, recipeVars>>

(***************************************************************************)
(* RestaurantProvider (contexts/RestaurantContext.tsx) and ProtectedRoute  *)
(* (components/auth/ProtectedRoute.tsx).                                   *)
(***************************************************************************)
\* Accounts of the auth service.
Uids == {"ada", "mia", "eli", "gus"}

\* A users/{uid} document. restaurantIds is absent (hasList = FALSE) in the
\* documents UserManagement writes.
NoUserDoc ==
  [exists |-> FALSE, role |-> "", restaurantId |-> "", hasList |-> FALSE,
   restaurantIds |-> <<>>]

UserDoc(role, primary, hasList, ids) ==
  [exists |-> TRUE, role |-> role, restaurantId |-> primary, hasList |-> hasList,
   restaurantIds |-> ids]

\* The users collection: an owner with the admin role and one restaurant, a
\* manager who signed up with two restaurants, an employee created in
\* UserManagement, and an account whose users document is missing.
InitialUserDocs ==
  [u \in Uids |->
     CASE u = "ada" -> UserDoc("admin", "expiry_cafe", FALSE, <<>>)
       [] u = "mia" -> UserDoc("manager", "cafe", TRUE, <<"cafe", "expiry_cafe">>)
       [] u = "eli" -> UserDoc("employee", "cafe", FALSE, <<>>)
       [] OTHER -> NoUserDoc]

\* restaurantDoc.exists()
RestaurantExists(id) == id \in RestaurantIds

\* restaurantData?.name || id
RestaurantName(id) == IF id = "cafe" THEN "Le Cafe" ELSE id

\* The provider's state right after mounting (the useState initial values).
InitialContext ==
  [restaurantId |-> "null", restaurantName |-> "null", user |-> "null",
   userRole |-> "null", loading |-> TRUE, availableRestaurants |-> <<>>]

\* Mutant: employees are let in as well.
ProtectedRouteAllowsEmployee(c) ==
  IF c.loading THEN "spinner"
  ELSE IF c.user = "null" THEN "redirect /signin"
  ELSE IF c.userRole \notin {"admin", "manager", "employee"} THEN "access denied"
  ELSE "children"

\* ProtectedRoute: what it renders for a context value.
ProtectedRoute(c) ==
  IF c.loading THEN "spinner"
  ELSE IF c.user = "null" THEN "redirect /signin"
  ELSE IF c.userRole # "admin" /\ c.userRole # "manager" THEN "access denied"
  ELSE "children"

\* Text stored in localStorage as it is.
Text(t) == [kind |-> "text", text |-> t]

\* userData.restaurantIds || [primaryRestaurantId]
RestaurantIdsOf(d) == IF d.hasList THEN d.restaurantIds ELSE <<d.restaurantId>>

Range(q) == {q[k] : k \in 1..Len(q)}

RemoveAt(q, k) == SubSeq(q, 1, k - 1) \o SubSeq(q, k + 1, Len(q))

\* An invocation of the onAuthStateChanged callback that awaits something.
Invocation(u, pc) ==
  [user |-> u, pc |-> pc, primaryRestaurantId |-> "", restaurantIds |-> <<>>,
   initialRestaurantId |-> ""]

\* The listener is invoked with currentUser: setUser, then either the
\* signed-out branch, which runs to its end, or the wait for enableNetwork
\* and the user document.
Invoke(c, u) ==
  IF u = "null"
    THEN [c EXCEPT !.user = "null", !.restaurantId = "null", !.restaurantName = "null",
                   !.userRole = "null", !.loading = FALSE]
    ELSE [c EXCEPT !.user = u]

Started(u) == IF u = "null" THEN callbacks ELSE Append(callbacks, Invocation(u, "getUserDoc"))

\* The first invocation after the provider mounted, with the persisted user.
AuthFirstCallback ==
  /\ authFire
  /\ authFire' = FALSE
  /\ ctx' = Invoke(ctx, authUser)
  /\ callbacks' = Started(authUser)
  /\ UNCHANGED <<userDocs, authUser, switching, authEvents, localStorage,
                 now, ticks, lastCall, stored, signUpVars, resetVars, recipeVars>>

\* signInWithEmailAndPassword / signOut: the auth state changes to u and the
\* listener is invoked.
AuthStateChanged(u) ==
  /\ ~authFire
  /\ u # authUser
  /\ authEvents < MaxAuthEvents
  /\ authEvents' = authEvents + 1
  /\ authUser' = u
  /\ ctx' = Invoke(ctx, u)
  /\ callbacks' = Started(u)
  /\ UNCHANGED <<userDocs, switching, authFire, localStorage,
                 now, ticks, lastCall, stored, signUpVars, resetVars, recipeVars>>

\* window.location.reload() or a navigation by URL: the provider mounts anew,
\* pending promises are gone, the auth session persists.
PageLoad ==
  /\ ~authFire
  /\ authEvents < MaxAuthEvents
  /\ authEvents' = authEvents + 1
  /\ ctx' = InitialContext
  /\ callbacks' = <<>>
  /\ switching' = "null"
  /\ authFire' = TRUE
  /\ UNCHANGED <<userDocs, authUser, localStorage, now, ticks, lastCall, stored, signUpVars, resetVars, recipeVars>>

\* The end of an invocation: setLoading(false).
Ended(c) == [c EXCEPT !.loading = FALSE]

\* catch (error): setRestaurantId(null), then setLoading(false).
Caught(c) == Ended([c EXCEPT !.restaurantId = "null"])

\* await enableNetwork(db); await getDoc(userDocRef) (nothing is read or set
\* between the two; either may throw), and what follows up to the next await.
GetUserDoc(k, ok) ==
  /\ k \in 1..Len(callbacks)
  /\ callbacks[k].pc = "getUserDoc"
  /\ LET userData == userDocs[callbacks[k].user]
         restaurantIds == RestaurantIdsOf(userData) IN
     IF ~ok
       THEN /\ callbacks' = RemoveAt(callbacks, k)
            /\ ctx' = Caught(ctx)
     ELSE IF ~userData.exists
       THEN /\ callbacks' = RemoveAt(callbacks, k)
            /\ ctx' = Ended([ctx EXCEPT !.restaurantId = "null"])
     ELSE IF Len(restaurantIds) > 0
       THEN /\ callbacks' = [callbacks EXCEPT
                               ![k].pc = "loadAvailableRestaurants",
                               ![k].primaryRestaurantId = userData.restaurantId,
                               ![k].restaurantIds = restaurantIds]
            /\ ctx' = [ctx EXCEPT !.userRole = userData.role]
     ELSE /\ callbacks' = RemoveAt(callbacks, k)
          /\ ctx' = Ended([ctx EXCEPT !.userRole = userData.role,
                                      !.restaurantId = "null",
                                      !.restaurantName = "null"])
  /\ UNCHANGED <<userDocs, authUser, switching, authFire, authEvents, localStorage,
                 now, ticks, lastCall, stored, signUpVars, resetVars, recipeVars>>

\* loadAvailableRestaurants(restaurantIds): the restaurants that exist and whose
\* read did not throw, in the order of the list.
AvailableOf(restaurantIds, failed) ==
  SelectSeq(restaurantIds, LAMBDA id : RestaurantExists(id) /\ id \notin failed)

\* localStorage.getItem('currentRestaurantId')
SavedRestaurantId == GetItem(localStorage, "currentRestaurantId")

\* (savedRestaurantId && restaurantIds.includes(savedRestaurantId))
\*   ? savedRestaurantId : primaryRestaurantId
InitialRestaurantId(saved, restaurantIds, primaryRestaurantId) ==
  IF saved.kind = "text" /\ saved.text \in Range(restaurantIds)
    THEN saved.text ELSE primaryRestaurantId

\* await loadAvailableRestaurants(restaurantIds): its reads (those in failed
\* throw and are skipped), setAvailableRestaurants, and the choice of the
\* restaurant to load.
LoadAvailableRestaurants(k, failed) ==
  /\ k \in 1..Len(callbacks)
  /\ callbacks[k].pc = "loadAvailableRestaurants"
  /\ failed \subseteq Range(callbacks[k].restaurantIds)
  /\ LET cb == callbacks[k]
         initial == InitialRestaurantId(SavedRestaurantId, cb.restaurantIds,
                                        cb.primaryRestaurantId)
         loaded == [ctx EXCEPT !.availableRestaurants =
                                  AvailableOf(cb.restaurantIds, failed)] IN
     IF initial # ""
       THEN /\ callbacks' = [callbacks EXCEPT ![k].pc = "getRestaurantDoc",
                                              ![k].initialRestaurantId = initial]
            /\ ctx' = loaded
       ELSE /\ callbacks' = RemoveAt(callbacks, k)
            /\ ctx' = Ended(loaded)
  /\ UNCHANGED <<userDocs, authUser, switching, authFire, authEvents, localStorage,
                 now, ticks, lastCall, stored, signUpVars, resetVars, recipeVars>>

\* await getDoc(restaurantDocRef) for the initial restaurant, to the end.
GetRestaurantDoc(k, ok) ==
  /\ k \in 1..Len(callbacks)
  /\ callbacks[k].pc = "getRestaurantDoc"
  /\ LET id == callbacks[k].initialRestaurantId IN
     ctx' = IF ~ok THEN Caught(ctx)
            ELSE IF RestaurantExists(id)
              THEN Ended([ctx EXCEPT !.restaurantId = id,
                                     !.restaurantName = RestaurantName(id)])
              ELSE Ended([ctx EXCEPT !.restaurantId = "null",
                                     !.restaurantName = "null"])
  /\ callbacks' = RemoveAt(callbacks, k)
  /\ UNCHANGED <<userDocs, authUser, switching, authFire, authEvents, localStorage,
                 now, ticks, lastCall, stored, signUpVars, resetVars, recipeVars>>

\* RestaurantSwitcher.handleSwitchRestaurant: an entry of the dropdown other
\* than the current restaurant is chosen; switchRestaurant awaits its read.
SwitchRestaurantCalled(id) ==
  /\ ProtectedRoute(ctx) = "children"
  /\ switching = "null"
  /\ id \in Range(ctx.availableRestaurants)
  /\ id # ctx.restaurantId
  /\ switching' = id
  /\ UNCHANGED <<userDocs, authUser, ctx, callbacks, authFire, authEvents, localStorage,
                 now, ticks, lastCall, stored, signUpVars, resetVars, recipeVars>>

\* switchRestaurant after await getDoc(restaurantDocRef).
SwitchRestaurantDone(ok) ==
  /\ switching # "null"
  /\ switching' = "null"
  /\ IF ok /\ RestaurantExists(switching)
       THEN /\ ctx' = [ctx EXCEPT !.restaurantId = switching,
                                  !.restaurantName = RestaurantName(switching)]
            /\ localStorage' = [localStorage EXCEPT
                                  !["currentRestaurantId"] = Text(switching)]
       ELSE UNCHANGED <<ctx, localStorage>>
  /\ UNCHANGED <<userDocs, authUser, callbacks, authFire, authEvents,
                 now, ticks, lastCall, stored, signUpVars, resetVars, recipeVars>>

(***************************************************************************)
(* The Recipes page (components/recipes/Recipes.tsx, lines 157-1310) and   *)
(* the documents it reads and writes: restaurants/{r}/recipes/categories   *)
(* with its names list, and the recipe documents in                        *)
(* restaurants/{r}/recipes/categories/{category}/{id}.                     *)
(***************************************************************************)
CategoryNames == {"desserts", "mains"}

\* A missing categories document, and one with a names list.
NoCategoriesDoc == [exists |-> FALSE, names |-> <<>>]

CategoriesDoc(names) == [exists |-> TRUE, names |-> names]

\* categoriesDoc.exists() ? categoriesDoc.data().names || [] : []
NamesOf(d) == IF d.exists THEN d.names ELSE <<>>

\* array.includes(x)
Includes(q, x) == x \in Range(q)

\* text.trim() on the texts typed in this model.
Trim(text) ==
  IF text = " " THEN "" ELSE IF text = " expiry_cafe" THEN "expiry_cafe" ELSE text

\* text.toLowerCase(): the names of this model are in lower case already.
ToLowerCase(text) == text

\* The order of Array.prototype.sort() on the category names.
Rank(c) == IF c = "desserts" THEN 1 ELSE 2

\* categories.sort()
Sort(categories) == SortSeq(categories, LAMBDA a, b : Rank(a) < Rank(b))

\* [...new Set(list)]: the first occurrence of every element, in order.
RECURSIVE Dedupe(_)
Dedupe(list) ==
  IF Len(list) = 0 THEN <<>>
  ELSE LET front == Dedupe(SubSeq(list, 1, Len(list) - 1)) IN
       IF Includes(front, list[Len(list)]) THEN front ELSE Append(front, list[Len(list)])

\* array.slice(0, n)
Slice(list, n) == SubSeq(list, 1, IF Len(list) < n THEN Len(list) ELSE n)

\* The image field of a recipe document: an array of URLs, or one URL as a
\* string in documents written by earlier versions.
ImageArrayOf(urls) == [kind |-> "array", urls |-> urls, text |-> ""]

ImageString(text) == [kind |-> "string", urls |-> <<>>, text |-> text]

\* The conversion loadAllRecipes and handleEdit apply to a stored image.
ImageArray(image) ==
  IF image.kind = "array" THEN image.urls
  ELSE IF image.text # "" THEN <<image.text>>
  ELSE <<>>

\* getDefaultRecipeImage()
DefaultRecipeImage == "data:image/svg+xml"

\* uploadImageToStorage(file, restaurantId, 'recipes'): the download URL of
\* `${restaurantId}/recipes/${fileName}`.
UploadedUrl(file, restaurantId) == restaurantId \o "/recipes/" \o file

\* list.filter(text => text.trim() !== '')
NonBlank(list) == SelectSeq(list, LAMBDA text : Trim(text) # "")

\* The fields handleSubmit writes.
RecipeData(category, image, ingredients, instructions, notes, recipeName, t) ==
  [category |-> category, image |-> image, ingredients |-> ingredients,
   instructions |-> instructions, notes |-> notes, recipeName |-> recipeName,
   createdAt |-> t]

\* A recipe document at its path.
RecipeDoc(restaurantId, category, id, data) ==
  [restaurantId |-> restaurantId, category |-> category, id |-> id, data |-> data]

\* { id: doc.id, ...data, image: imageArray }: a loaded recipe.
Recipe(d) ==
  [id |-> d.id, category |-> d.data.category, image |-> ImageArray(d.data.image),
   ingredients |-> d.data.ingredients, instructions |-> d.data.instructions,
   notes |-> d.data.notes, recipeName |-> d.data.recipeName,
   createdAt |-> d.data.createdAt]

\* editingRecipe = null
NoRecipe == [id |-> 0]

\* resetForm(): the empty form.
EmptyForm ==
  [category |-> "", image |-> <<>>, ingredients |-> <<"">>, instructions |-> <<"">>,
   notes |-> "", recipeName |-> ""]

\* The component's state right after mounting (the useState initial values)
\* for the restaurantId the context provides.
InitialPage(restaurantId) ==
  [restaurantId |-> restaurantId, recipes |-> {}, categories |-> <<>>, loading |-> TRUE,
   showModal |-> FALSE, editingRecipe |-> NoRecipe, formData |-> EmptyForm,
   selectedFiles |-> <<>>, existingImageUrls |-> <<>>, selectedRestaurantIds |-> <<>>,
   reloadTimer |-> FALSE, shown |-> "none", alert |-> "none"]

\* A load that awaits its reads: loadCategories, or loadAllRecipes with the
\* category list it iterates.
Load(kind, restaurantId, categories) ==
  [kind |-> kind, restaurantId |-> restaurantId, categories |-> categories]

\* The page, the storage and the pending loads an effect works on.
World(p, ls, lds) == [page |-> p, storage |-> ls, loads |-> lds]

\* The loadAllRecipes effect run for a category list at time t. own tells
\* whether that list is the array the categories state refers to, which
\* categories.sort() sorts in place.
LoadAllRecipes(w, categories, own, t) ==
  IF Len(categories) = 0 THEN w
  ELSE
    LET got == GetCachedData(w.storage, t, w.page.restaurantId)
        cachedData == got.result
        sorted == Sort(categories)
        kept == IF own THEN [w.page EXCEPT !.categories = sorted] ELSE w.page IN
    IF cachedData # Null /\ Cardinality(cachedData.recipes) > 0
      THEN IF Sort(cachedData.categories) = sorted
             THEN World([kept EXCEPT !.recipes = cachedData.recipes, !.loading = FALSE,
                                     !.shown = "cache"],
                        got.storage, w.loads)
             ELSE World(kept, got.storage,
                        Append(w.loads, Load("recipes", w.page.restaurantId, sorted)))
      ELSE World(w.page, got.storage,
                 Append(w.loads, Load("recipes", w.page.restaurantId, categories)))

\* setCategories(list) followed by the effect it triggers.
SetCategories(w, list, t) ==
  LoadAllRecipes([w EXCEPT !.page.categories = list], list, TRUE, t)

\* Both effects after a render with a new restaurantId: loadInitialData, then
\* loadAllRecipes with the category list of that render, then loadAllRecipes
\* once more when loadInitialData took the list of the cache.
RestaurantEffects(w, t) ==
  LET rendered == w.page.categories
      got == GetCachedData(w.storage, t, w.page.restaurantId)
      cachedData == got.result
      hit == cachedData # Null /\ Len(cachedData.categories) > 0
      first ==
        IF hit
          THEN World([w.page EXCEPT !.categories = cachedData.categories,
                                    !.recipes = cachedData.recipes, !.loading = FALSE,
                                    !.shown = "cache"],
                     got.storage, w.loads)
          ELSE World(w.page, got.storage,
                     Append(w.loads, Load("categories", w.page.restaurantId, <<>>)))
      second == LoadAllRecipes(first, rendered, ~hit, t) IN
  IF hit THEN LoadAllRecipes(second, second.page.categories, TRUE, t) ELSE second

\* window.location.reload(): the component mounts anew for the restaurant the
\* context restores, pending promises are gone, and the effects run.
Mount(restaurantId, ls, t) ==
  RestaurantEffects(World(InitialPage(restaurantId), ls, <<>>), t)

\* The backend as a handler has left it so far, with the recipe document
\* writes it has made.
Backend(cats, docs, next, writeList) ==
  [cats |-> cats, docs |-> docs, next |-> next, writes |-> writeList]

\* A write of a recipe document, and whether its category was in the names
\* list of the restaurant when it was made.
Write(op, restaurantId, category, id, cats) ==
  [op |-> op, restaurantId |-> restaurantId, category |-> category, id |-> id,
   listed |-> Includes(NamesOf(cats[restaurantId]), category)]

\* getRecipeInCategoryDoc(restaurantId, category, id)
DocAt(docs, restaurantId, category, id) ==
  {d \in docs : d.restaurantId = restaurantId /\ d.category = category /\ d.id = id}

\* addDoc(getRecipeCategoryCollection(restaurantId, category), data)
AddDoc(b, restaurantId, category, data) ==
  [b EXCEPT !.docs = @ \cup {RecipeDoc(restaurantId, category, b.next, data)},
            !.next = @ + 1,
            !.writes = Append(@, Write("add", restaurantId, category, b.next, b.cats))]

\* updateDoc(getRecipeInCategoryDoc(restaurantId, category, id), data) on an
\* existing document; every field of data replaces the stored one.
UpdateDoc(b, restaurantId, category, id, data) ==
  [b EXCEPT !.docs = (@ \ DocAt(@, restaurantId, category, id))
                       \cup {RecipeDoc(restaurantId, category, id, data)},
            !.writes = Append(@, Write("update", restaurantId, category, id, b.cats))]

\* deleteDoc(getRecipeInCategoryDoc(restaurantId, category, id))
DeleteDoc(b, restaurantId, category, id) ==
  [b EXCEPT !.docs = @ \ DocAt(@, restaurantId, category, id),
            !.writes = Append(@, Write("delete", restaurantId, category, id, b.cats))]

\* setDoc / updateDoc(getRecipeCategoriesDoc(restaurantId), { names })
SetNames(b, restaurantId, names) == [b EXCEPT !.cats[restaurantId] = CategoriesDoc(names)]

\* Mutant: the copy loop does not skip the current restaurant.
RECURSIVE CopyToVenuesNoSkip(_, _, _, _, _)
CopyToVenuesNoSkip(b, targets, restaurantId, recipeData, failed) ==
  IF Len(targets) = 0 THEN b
  ELSE
    LET targetRestaurantId == Head(targets)
        targetCategories == NamesOf(b.cats[targetRestaurantId])
        missing == ~Includes(targetCategories, recipeData.category)
        ensured == IF missing
                     THEN SetNames(b, targetRestaurantId,
                                   Append(targetCategories, recipeData.category))
                     ELSE b
        done == IF failed[targetRestaurantId] = "get" THEN b
                ELSE IF failed[targetRestaurantId] = "set" /\ missing THEN b
                ELSE IF failed[targetRestaurantId] = "add" THEN ensured
                ELSE AddDoc(ensured, targetRestaurantId, recipeData.category, recipeData) IN
    CopyToVenuesNoSkip(done, Tail(targets), restaurantId, recipeData, failed)

\* Mutant: an error for one target ends the copy loop.
RECURSIVE CopyToVenuesUntilError(_, _, _, _, _)
CopyToVenuesUntilError(b, targets, restaurantId, recipeData, failed) ==
  IF Len(targets) = 0 THEN b
  ELSE
    LET targetRestaurantId == Head(targets)
        targetCategories == NamesOf(b.cats[targetRestaurantId])
        missing == ~Includes(targetCategories, recipeData.category)
        ensured == IF missing
                     THEN SetNames(b, targetRestaurantId,
                                   Append(targetCategories, recipeData.category))
                     ELSE b IN
    IF targetRestaurantId = restaurantId
      THEN CopyToVenuesUntilError(b, Tail(targets), restaurantId, recipeData, failed)
    ELSE IF failed[targetRestaurantId] = "get" THEN b
    ELSE IF failed[targetRestaurantId] = "set" /\ missing THEN b
    ELSE IF failed[targetRestaurantId] = "add" THEN ensured
    ELSE CopyToVenuesUntilError(
           AddDoc(ensured, targetRestaurantId, recipeData.category, recipeData),
           Tail(targets), restaurantId, recipeData, failed)

\* The copy loop of handleSubmit over selectedRestaurantIds. failed[t] names
\* the call that throws for target t ("get", "set", "add") or is "none"; the
\* catch clause inside the loop goes on with the next target.
RECURSIVE CopyToVenues(_, _, _, _, _)
CopyToVenues(b, targets, restaurantId, recipeData, failed) ==
  IF Len(targets) = 0 THEN b
  ELSE
    LET targetRestaurantId == Head(targets)
        targetCategories == NamesOf(b.cats[targetRestaurantId])
        missing == ~Includes(targetCategories, recipeData.category)
        ensured == IF missing
                     THEN SetNames(b, targetRestaurantId,
                                   Append(targetCategories, recipeData.category))
                     ELSE b
        done == IF targetRestaurantId = restaurantId THEN b
                ELSE IF failed[targetRestaurantId] = "get" THEN b
                ELSE IF failed[targetRestaurantId] = "set" /\ missing THEN b
                ELSE IF failed[targetRestaurantId] = "add" THEN ensured
                ELSE AddDoc(ensured, targetRestaurantId, recipeData.category, recipeData) IN
    CopyToVenues(done, Tail(targets), restaurantId, recipeData, failed)

\* clearCache(restaurantId), then clearCache(id) for every other selected id.
RECURSIVE ClearCaches(_, _)
ClearCaches(ls, ids) ==
  IF Len(ids) = 0 THEN ls ELSE ClearCaches(ClearCache(ls, Head(ids)), Tail(ids))

\* Mutant: the catch block only logs the error.
AlertForLogOnly(code) == "none"

\* The alert of the catch block of handleSubmit for an error with this code.
AlertFor(code) ==
  IF code = "permission-denied"
    THEN "Permission denied. Please check your account permissions."
  ELSE IF code = "not-found" THEN "Recipe not found. It may have been deleted."
  ELSE "Error saving recipe: " \o code

\* No creation to follow.
NoCreated == [restaurantId |-> "", id |-> 0]

\* What the user can type into the recipe form and attach to it, and whether
\* the venues offered for copying are ticked.
FormInputs ==
  { [recipeName |-> "soup", notes |-> "", ingredients |-> <<"salt", " ">>,
     instructions |-> <<"boil">>, files |-> <<>>, copy |-> FALSE],
    [recipeName |-> "tart", notes |-> "nuts", ingredients |-> <<"flour">>,
     instructions |-> <<"">>, files |-> <<"tart.jpg">>, copy |-> TRUE] }

\* The venues of a manager who has a third restaurant.
Venues == RestaurantIds \cup {"bistro"}

\* The call of the copy loop that throws, if any.
CopyFailures == {"none", "get", "set", "add"}

\* The same call throws for every target.
UniformCopyFailures == {[t \in Venues |-> c] : c \in CopyFailures}

\* The venues the form offers for copying: availableRestaurants without the
\* current restaurant.
Targets(restaurantId) == SelectSeq(RestaurantDocs, LAMBDA id : id # restaurantId)

\* openAddModal()
OpenAddModal ==
  /\ ~page.loading /\ ~page.showModal
  /\ page' = [page EXCEPT !.editingRecipe = NoRecipe, !.formData = EmptyForm,
                          !.selectedFiles = <<>>, !.existingImageUrls = <<>>,
                          !.selectedRestaurantIds = <<>>, !.showModal = TRUE]
  /\ UNCHANGED <<categoriesDocs, recipeDocs, nextId, loads, exportFile, recipeOps,
                 lastWrites, created, cacheVars, resetVars, authVars>>

\* handleEdit(recipe) for a recipe of the list shown.
HandleEdit(recipe) ==
  /\ ~page.loading /\ ~page.showModal
  /\ recipe \in page.recipes
  /\ page' = [page EXCEPT
                !.editingRecipe = recipe,
                !.existingImageUrls = recipe.image,
                !.formData =
                   [category |-> recipe.category, image |-> recipe.image,
                    ingredients |-> IF Len(recipe.ingredients) > 0
                                      THEN recipe.ingredients ELSE <<"">>,
                    instructions |-> IF Len(recipe.instructions) > 0
                                       THEN recipe.instructions ELSE <<"">>,
                    notes |-> recipe.notes, recipeName |-> recipe.recipeName],
                !.selectedFiles = <<>>,
                !.showModal = TRUE]
  /\ UNCHANGED <<categoriesDocs, recipeDocs, nextId, loads, exportFile, recipeOps,
                 lastWrites, created, cacheVars, resetVars, authVars>>

\* The checkboxes of the venues offered, all ticked or all cleared: a ticked
\* one appends its id, a cleared one filters its id out. An id the form does
\* not offer stays in the selection.
ToggleVenues(selectedRestaurantIds, offered, checked) ==
  IF checked
    THEN selectedRestaurantIds
           \o SelectSeq(offered, LAMBDA id : ~Includes(selectedRestaurantIds, id))
    ELSE SelectSeq(selectedRestaurantIds, LAMBDA id : ~Includes(offered, id))

\* The file input, which is shown while fewer than 8 images are in the form:
\* the files chosen, cut to the slots that are free next to the stored images.
FilesToAdd(files, existingImageUrls) ==
  LET availableSlots == 8 - Len(existingImageUrls) IN
  IF availableSlots > 0 THEN Slice(files, availableSlots) ELSE <<>>

\* The user fills the form: a category among the options of the select (the
\* categories state), the texts, the files and the venues to copy to.
FillForm(category, input) ==
  /\ page.showModal
  /\ Includes(page.categories, category)
  /\ page' = [page EXCEPT
                !.formData = [@ EXCEPT !.category = category,
                                       !.ingredients = input.ingredients,
                                       !.instructions = input.instructions,
                                       !.notes = input.notes,
                                       !.recipeName = input.recipeName],
                !.selectedFiles = FilesToAdd(input.files, page.existingImageUrls),
                !.selectedRestaurantIds =
                   ToggleVenues(@, Targets(page.restaurantId), input.copy)]
  /\ UNCHANGED <<categoriesDocs, recipeDocs, nextId, loads, exportFile, recipeOps,
                 lastWrites, created, cacheVars, resetVars, authVars>>

\* The Cancel button of the form: setShowModal(false).
CloseModal ==
  /\ page.showModal
  /\ page' = [page EXCEPT !.showModal = FALSE]
  /\ UNCHANGED <<categoriesDocs, recipeDocs, nextId, loads, exportFile, recipeOps,
                 lastWrites, created, cacheVars, resetVars, authVars>>

\* loadCategories after await getDoc(getRecipeCategoriesDoc(restaurantId)):
\* setCategories with the names read, or with [] when the read threw, and the
\* loadAllRecipes effect that follows.
LoadCategoriesDone(k, ok) ==
  /\ k \in 1..Len(loads)
  /\ loads[k].kind = "categories"
  /\ LET names == IF ok THEN NamesOf(categoriesDocs[loads[k].restaurantId]) ELSE <<>>
         w == SetCategories(World(page, localStorage, RemoveAt(loads, k)), names, now) IN
     /\ page' = w.page
     /\ localStorage' = w.storage
     /\ loads' = w.loads
  /\ UNCHANGED <<categoriesDocs, recipeDocs, nextId, exportFile, recipeOps, lastWrites,
                 created, now, ticks, lastCall, stored, resetVars, authVars>>

\* The recipes under the categories of a list, as loadAllRecipes reads them.
RecipesUnder(docs, restaurantId, categories) ==
  {Recipe(d) : d \in {x \in docs : x.restaurantId = restaurantId
                                     /\ Includes(categories, x.category)}}

\* loadAllRecipes after its reads: setRecipes, setCachedData, setLoading(false);
\* when a read threw, only setLoading(false).
LoadAllRecipesDone(k, ok) ==
  /\ k \in 1..Len(loads)
  /\ loads[k].kind = "recipes"
  /\ LET restaurantId == loads[k].restaurantId
         allRecipes == RecipesUnder(recipeDocs, restaurantId, loads[k].categories) IN
     IF ok
       THEN /\ page' = [page EXCEPT !.recipes = allRecipes, !.loading = FALSE,
                                    !.shown = "backend"]
            /\ localStorage' =
                 SetCachedData(localStorage, now,
                               CacheData(allRecipes, loads[k].categories, now, restaurantId),
                               restaurantId, "none")
       ELSE /\ page' = [page EXCEPT !.loading = FALSE]
            /\ UNCHANGED localStorage
  /\ loads' = RemoveAt(loads, k)
  /\ UNCHANGED <<categoriesDocs, recipeDocs, nextId, exportFile, recipeOps, lastWrites,
                 created, now, ticks, lastCall, stored, resetVars, authVars>>

\* handleSubmit. failed names the call that throws ("upload", "delete",
\* "write") or is "none"; updateDoc also throws when the document is gone.
\* copyFailed[t] is the call that throws inside the copy loop for target t.
HandleSubmit(failed, copyFailed) ==
  /\ page.showModal
  /\ page.formData.category # ""
  /\ recipeOps < MaxRecipeOps
  /\ LET restaurantId == page.restaurantId
         formData == page.formData
         editingRecipe == page.editingRecipe
         editing == editingRecipe # NoRecipe
         moved == editing /\ editingRecipe.category # formData.category
         newImageUrls == [k \in 1..Len(page.selectedFiles) |->
                            UploadedUrl(page.selectedFiles[k], restaurantId)]
         withNew == IF Len(page.selectedFiles) > 0
                      THEN Slice(page.existingImageUrls \o newImageUrls, 8)
                      ELSE page.existingImageUrls
         finalImageUrls == IF Len(withNew) = 0 THEN <<DefaultRecipeImage>> ELSE withNew
         recipeData == RecipeData(formData.category, ImageArrayOf(finalImageUrls),
                                  NonBlank(formData.ingredients),
                                  NonBlank(formData.instructions),
                                  formData.notes, formData.recipeName, now)
         before == Backend(categoriesDocs, recipeDocs, nextId, <<>>)
         gone == editing /\ ~moved
                   /\ DocAt(recipeDocs, restaurantId, formData.category, editingRecipe.id) = {}
         thrown == failed # "none" \/ gone
         \* error.code: a failing call could not reach the service; an
         \* updateDoc on a document that is gone answers "not-found".
         code == IF failed # "none" THEN "unavailable" ELSE "not-found"
         deleted == IF moved /\ failed \in {"none", "write"}
                      THEN DeleteDoc(before, restaurantId, editingRecipe.category,
                                     editingRecipe.id)
                      ELSE before
         saved == IF thrown THEN deleted
                  ELSE IF editing /\ ~moved
                    THEN UpdateDoc(before, restaurantId, formData.category,
                                   editingRecipe.id, recipeData)
                  ELSE AddDoc(deleted, restaurantId, formData.category, recipeData)
         copied == IF thrown THEN saved
                   ELSE CopyToVenues(saved, page.selectedRestaurantIds, restaurantId,
                                     recipeData, copyFailed)
         w == Mount(restaurantId,
                    ClearCaches(localStorage, <<restaurantId>> \o page.selectedRestaurantIds),
                    now) IN
     /\ failed = "upload" => Len(page.selectedFiles) > 0
     /\ failed = "delete" => moved
     /\ categoriesDocs' = copied.cats
     /\ recipeDocs' = copied.docs
     /\ nextId' = copied.next
     /\ IF thrown
          THEN /\ page' = [page EXCEPT !.alert = AlertFor(code)]
               /\ UNCHANGED <<localStorage, loads>>
               /\ lastWrites' = IF copied.writes = <<>> THEN lastWrites ELSE copied.writes
               /\ created' = IF copied.writes = <<>> THEN created ELSE NoCreated
               /\ recipeOps' = IF copied.writes = <<>> THEN recipeOps ELSE recipeOps + 1
          ELSE /\ page' = w.page
               /\ localStorage' = w.storage
               /\ loads' = w.loads
               /\ lastWrites' = copied.writes
               /\ created' = IF editing THEN NoCreated
                             ELSE [restaurantId |-> restaurantId, id |-> nextId,
                                   data |-> recipeData]
               /\ recipeOps' = recipeOps + 1
  /\ UNCHANGED <<exportFile, now, ticks, lastCall, stored, resetVars, authVars>>

\* handleDelete(recipe), the confirmation accepted.
HandleDelete(recipe, ok) ==
  /\ ~page.loading /\ ~page.showModal
  /\ recipe \in page.recipes
  /\ recipeOps < MaxRecipeOps
  /\ IF ok
       THEN LET restaurantId == page.restaurantId
                b == DeleteDoc(Backend(categoriesDocs, recipeDocs, nextId, <<>>),
                               restaurantId, recipe.category, recipe.id)
                w == Mount(restaurantId, ClearCache(localStorage, restaurantId), now) IN
            /\ recipeDocs' = b.docs
            /\ lastWrites' = b.writes
            /\ page' = w.page
            /\ localStorage' = w.storage
            /\ loads' = w.loads
            /\ created' = NoCreated
            /\ recipeOps' = recipeOps + 1
       ELSE UNCHANGED <<recipeDocs, page, localStorage, loads, created, lastWrites,
                        recipeOps>>
  /\ UNCHANGED <<categoriesDocs, nextId, exportFile, now, ticks, lastCall, stored,
                 resetVars, authVars>>

\* handleAddCategory with newCategoryName typed. failed names the call that
\* throws ("get", "set") or is "none".
HandleAddCategory(newCategoryName, failed) ==
  /\ ~page.loading /\ ~page.showModal
  /\ Trim(newCategoryName) # ""
  /\ recipeOps < MaxRecipeOps
  /\ LET restaurantId == page.restaurantId
         existing == NamesOf(categoriesDocs[restaurantId])
         duplicate == \E k \in 1..Len(existing) :
                        ToLowerCase(existing[k]) = ToLowerCase(Trim(newCategoryName))
         updatedCategories == Append(existing, Trim(newCategoryName))
         w == SetCategories(World(page, ClearCache(localStorage, restaurantId), loads),
                            updatedCategories, now) IN
     IF failed # "none" \/ duplicate
       THEN UNCHANGED <<categoriesDocs, page, localStorage, loads, created, recipeOps>>
       ELSE /\ categoriesDocs' =
                 [categoriesDocs EXCEPT ![restaurantId] = CategoriesDoc(updatedCategories)]
            /\ page' = w.page
            /\ localStorage' = w.storage
            /\ loads' = w.loads
            /\ created' = NoCreated
            /\ recipeOps' = recipeOps + 1
  /\ UNCHANGED <<recipeDocs, nextId, exportFile, lastWrites, now, ticks, lastCall, stored,
                 resetVars, authVars>>

\* deleteCategory(categoryToDelete) for a category of the list shown: the
\* names written are the categories state without it; updateDoc throws when
\* the categories document is missing.
DeleteCategory(categoryToDelete, ok) ==
  /\ ~page.loading /\ ~page.showModal
  /\ Includes(page.categories, categoryToDelete)
  /\ recipeOps < MaxRecipeOps
  /\ LET restaurantId == page.restaurantId
         updatedCategories == SelectSeq(page.categories, LAMBDA cat : cat # categoryToDelete)
         w == SetCategories(World(page, ClearCache(localStorage, restaurantId), loads),
                            updatedCategories, now) IN
     IF ok /\ categoriesDocs[restaurantId].exists
       THEN /\ categoriesDocs' =
                 [categoriesDocs EXCEPT ![restaurantId] = CategoriesDoc(updatedCategories)]
            /\ page' = w.page
            /\ localStorage' = w.storage
            /\ loads' = w.loads
            /\ created' = NoCreated
            /\ recipeOps' = recipeOps + 1
       ELSE UNCHANGED <<categoriesDocs, page, localStorage, loads, created, recipeOps>>
  /\ UNCHANGED <<recipeDocs, nextId, exportFile, lastWrites, now, ticks, lastCall, stored,
                 resetVars, authVars>>

\* No file chosen for the import.
NoFile == [exportVersion |-> "none"]

\* { id: doc.id, ...data }: a recipe as exportRecipes puts it into the file.
Exported(d) ==
  [id |-> d.id, category |-> d.data.category, image |-> d.data.image,
   ingredients |-> d.data.ingredients, instructions |-> d.data.instructions,
   notes |-> d.data.notes, recipeName |-> d.data.recipeName,
   createdAt |-> d.data.createdAt]

\* exportData of exportRecipes for a restaurant.
ExportData(cats, docs, restaurantId) ==
  LET allCategories == NamesOf(cats[restaurantId]) IN
  [exportVersion |-> "1.0", restaurantId |-> restaurantId, categories |-> allCategories,
   recipes |-> {Exported(d) : d \in {x \in docs : x.restaurantId = restaurantId
                                                  /\ Includes(allCategories, x.category)}}]

\* exportRecipes: the downloaded file, or an alert when a read threw.
ExportRecipes(ok) ==
  /\ ~page.loading /\ ~page.showModal
  /\ recipeOps < MaxRecipeOps
  /\ recipeOps' = IF ok THEN recipeOps + 1 ELSE recipeOps
  /\ exportFile' = IF ok THEN ExportData(categoriesDocs, recipeDocs, page.restaurantId)
                   ELSE exportFile
  /\ UNCHANGED <<categoriesDocs, recipeDocs, nextId, page, loads, created, lastWrites,
                 cacheVars,
                 resetVars, authVars>>

\* Mutant: the import normalises the image to an array, as loadAllRecipes
\* does for the recipes it shows.
ImportedDataImageArray(recipe, t) ==
  RecipeData(recipe.category, ImageArrayOf(ImageArray(recipe.image)),
             recipe.ingredients, recipe.instructions, recipe.notes,
             IF recipe.recipeName # "" THEN recipe.recipeName ELSE "Imported Recipe",
             t)

\* recipeData of importRecipes for a recipe of the file.
ImportedData(recipe, t) ==
  RecipeData(recipe.category,
             IF recipe.image.kind = "string" /\ recipe.image.text = ""
               THEN ImageArrayOf(<<>>) ELSE recipe.image,
             recipe.ingredients, recipe.instructions, recipe.notes,
             IF recipe.recipeName # "" THEN recipe.recipeName ELSE "Imported Recipe",
             t)

\* Mutant: the import writes every recipe at the id it has in the file.
RECURSIVE ImportAllKeepingIds(_, _, _, _, _)
ImportAllKeepingIds(b, recipes, restaurantId, skipped, t) ==
  IF recipes = {} THEN b
  ELSE
    LET recipe == CHOOSE x \in recipes : \A y \in recipes : x.id <= y.id
        done == IF recipe.id \in skipped THEN b
                ELSE UpdateDoc(b, restaurantId, recipe.category, recipe.id,
                               ImportedData(recipe, t)) IN
    ImportAllKeepingIds(done, recipes \ {recipe}, restaurantId, skipped, t)

\* The import loop: one addDoc per recipe of the file; the recipes whose
\* addDoc throws (skipped) are counted and left out.
RECURSIVE ImportAll(_, _, _, _, _)
ImportAll(b, recipes, restaurantId, skipped, t) ==
  IF recipes = {} THEN b
  ELSE
    LET recipe == CHOOSE x \in recipes : \A y \in recipes : x.id <= y.id
        done == IF recipe.id \in skipped THEN b
                ELSE AddDoc(b, restaurantId, recipe.category, ImportedData(recipe, t)) IN
    ImportAll(done, recipes \ {recipe}, restaurantId, skipped, t)

\* importRecipes with the exported file chosen. failed names the call that
\* throws before the loop ("get", "set") or is "none". The reload is left to
\* a timer of two seconds.
ImportRecipes(failed, skipped) ==
  /\ ~page.loading /\ ~page.showModal /\ ~page.reloadTimer
  /\ exportFile # NoFile
  /\ skipped \subseteq {x.id : x \in exportFile.recipes}
  /\ recipeOps < MaxRecipeOps
  /\ LET restaurantId == page.restaurantId
         existingCategories == NamesOf(categoriesDocs[restaurantId])
         allCategories == Dedupe(existingCategories \o exportFile.categories)
         merged == SetNames(Backend(categoriesDocs, recipeDocs, nextId, <<>>),
                            restaurantId, allCategories)
         b == ImportAll(merged, exportFile.recipes, restaurantId, skipped, now) IN
     IF failed # "none"
       THEN /\ skipped = {}
            /\ UNCHANGED <<categoriesDocs, recipeDocs, nextId, page, localStorage, created,
                           lastWrites, recipeOps>>
       ELSE /\ categoriesDocs' = b.cats
            /\ recipeDocs' = b.docs
            /\ nextId' = b.next
            /\ lastWrites' = b.writes
            /\ localStorage' = ClearCache(localStorage, restaurantId)
            /\ page' = [page EXCEPT !.reloadTimer = TRUE]
            /\ created' = NoCreated
            /\ recipeOps' = recipeOps + 1
  /\ UNCHANGED <<loads, exportFile, now, ticks, lastCall, stored, resetVars, authVars>>

\* The timer set by importRecipes fires: window.location.reload().
ReloadTimer ==
  /\ page.reloadTimer
  /\ LET w == Mount(page.restaurantId, localStorage, now) IN
     /\ page' = w.page
     /\ localStorage' = w.storage
     /\ loads' = w.loads
  /\ UNCHANGED <<categoriesDocs, recipeDocs, nextId, exportFile, recipeOps, lastWrites,
                 created, now, ticks, lastCall, stored, resetVars, authVars>>

\* The user reloads the page.
Reload ==
  /\ recipeOps < MaxRecipeOps
  /\ recipeOps' = recipeOps + 1
  /\ LET w == Mount(page.restaurantId, localStorage, now) IN
     /\ page' = w.page
     /\ localStorage' = w.storage
     /\ loads' = w.loads
  /\ UNCHANGED <<categoriesDocs, recipeDocs, nextId, exportFile, lastWrites,
                 created, now, ticks, lastCall, stored, resetVars, authVars>>

\* The context's restaurantId changes (switchRestaurant) while the page stays
\* mounted: both effects run again, the rest of the state is kept.
RestaurantIdChanged(id) ==
  /\ id # page.restaurantId
  /\ ~page.showModal
  /\ recipeOps < MaxRecipeOps
  /\ recipeOps' = recipeOps + 1
  /\ LET w == RestaurantEffects(World([page EXCEPT !.restaurantId = id],
                                      localStorage, loads), now) IN
     /\ page' = w.page
     /\ localStorage' = w.storage
     /\ loads' = w.loads
  /\ created' = NoCreated
  /\ UNCHANGED <<categoriesDocs, recipeDocs, nextId, exportFile, lastWrites,
                 now, ticks, lastCall, stored, resetVars, authVars>>

\* deleteCategory run by another manager of the restaurant in another
\* browser, whose category list is the stored one.
OtherSessionDeleteCategory(restaurantId, categoryToDelete) ==
  /\ Includes(NamesOf(categoriesDocs[restaurantId]), categoryToDelete)
  /\ recipeOps < MaxRecipeOps
  /\ recipeOps' = recipeOps + 1
  /\ categoriesDocs' =
       [categoriesDocs EXCEPT ![restaurantId] =
          CategoriesDoc(SelectSeq(@.names, LAMBDA cat : cat # categoryToDelete))]
  /\ created' = NoCreated
  /\ UNCHANGED <<recipeDocs, nextId, page, loads, exportFile, lastWrites, cacheVars,
                 resetVars, authVars>>

(***************************************************************************)
(* SignUp (components/auth/SignUp.tsx).                                    *)
(*                                                                         *)
(* The text of the additional restaurant IDs is kept as the sequence of    *)
(* the pieces between its commas, which is what split(',') returns.        *)
(***************************************************************************)
\* The forms a visitor can submit.
SignUpForms ==
  [email : {"new@cafe.example", "mia@cafe.example"},
   password : {"secret", "12345"},
   confirmPassword : {"secret", "12345"},
   restaurantId : {"cafe", "ghost"},
   additionalRestaurantIds : {<<"">>, <<" expiry_cafe">>, <<"expiry_cafe", " ">>,
                              <<"ghost">>}]

EmptySignUpForm ==
  [email |-> "", password |-> "", confirmPassword |-> "", restaurantId |-> "",
   additionalRestaurantIds |-> <<"">>]

\* The component before a submission.
NoSignUp ==
  [pc |-> "idle", form |-> EmptySignUpForm, allRestaurantIds |-> <<>>, i |-> 0,
   error |-> "", loading |-> FALSE, navigated |-> FALSE, runs |-> 0]

\* The accounts Firebase Auth holds before anyone signs up here.
InitialAccounts == {"mia@cafe.example"}

ParkedSignUp ==
  /\ signUp = NoSignUp
  /\ authAccounts = InitialAccounts
  /\ signUpDocs = {}

\* additionalRestaurantIds.trim(): empty when the text has nothing but blanks.
IsBlank(pieces) == Len(pieces) = 1 /\ Trim(pieces[1]) = ""

\* additionalRestaurantIds.split(',').map(id => id.trim()).filter(id => id)
Additional(pieces) ==
  SelectSeq([k \in 1..Len(pieces) |-> Trim(pieces[k])], LAMBDA id : id # "")

\* Mutant: only the primary restaurant ID is taken.
AllRestaurantIdsPrimaryOnly(restaurantId, additionalRestaurantIds) == <<restaurantId>>

\* allRestaurantIds: the primary ID followed by the additional ones.
AllRestaurantIds(restaurantId, additionalRestaurantIds) ==
  IF IsBlank(additionalRestaurantIds) THEN <<restaurantId>>
  ELSE <<restaurantId>> \o Additional(additionalRestaurantIds)

\* The users document SignUp writes.
SignUpDoc(uid, email, restaurantId, allRestaurantIds) ==
  [uid |-> uid, email |-> email, restaurantId |-> restaurantId,
   restaurantIds |-> allRestaurantIds, role |-> "manager", isRestaurantOwner |-> TRUE]

\* user.uid of the account created for an email.
UidOf(email) == "uid:" \o email

\* handleSubmit up to its first await: the two password tests, then the list
\* of restaurant IDs.
SignUpSubmit(form) ==
  /\ signUp.pc = "idle"
  /\ signUp.runs < MaxSignUps
  /\ LET started == [signUp EXCEPT !.form = form, !.runs = @ + 1, !.navigated = FALSE,
                                   !.allRestaurantIds = <<>>, !.i = 0] IN
     signUp' =
       IF form.password # form.confirmPassword
         THEN [started EXCEPT !.error = "Passwords do not match", !.loading = FALSE]
       ELSE IF Len(form.password) < 6
         THEN [started EXCEPT !.error = "Password must be at least 6 characters",
                              !.loading = FALSE]
       ELSE [started EXCEPT !.error = "", !.loading = TRUE, !.pc = "check", !.i = 1,
                            !.allRestaurantIds =
                               AllRestaurantIds(form.restaurantId,
                                                form.additionalRestaurantIds)]
  /\ UNCHANGED <<authAccounts, signUpDocs, sessionVars, cacheVars, resetVars, recipeVars>>

\* await checkRestaurantExists(id) for the next ID of the list; a read that
\* throws goes to the catch clause.
CheckRestaurant(ok) ==
  /\ signUp.pc = "check"
  /\ LET id == signUp.allRestaurantIds[signUp.i] IN
     signUp' =
       IF ~ok
         THEN [signUp EXCEPT !.pc = "idle", !.error = "read failed", !.loading = FALSE]
       ELSE IF ~RestaurantExists(id)
         THEN [signUp EXCEPT !.pc = "idle", !.loading = FALSE,
                             !.error = "Restaurant ID \"" \o id \o "\" does not exist."]
       ELSE IF signUp.i < Len(signUp.allRestaurantIds)
         THEN [signUp EXCEPT !.i = @ + 1]
       ELSE [signUp EXCEPT !.pc = "create"]
  /\ UNCHANGED <<authAccounts, signUpDocs, sessionVars, cacheVars, resetVars, recipeVars>>

\* await createUserWithEmailAndPassword(auth, email, password): it throws when
\* the email has an account already or the call fails.
CreateUser(ok) ==
  /\ signUp.pc = "create"
  /\ IF ok /\ signUp.form.email \notin authAccounts
       THEN /\ authAccounts' = authAccounts \cup {signUp.form.email}
            /\ signUp' = [signUp EXCEPT !.pc = "setDoc"]
       ELSE /\ signUp' = [signUp EXCEPT !.pc = "idle", !.loading = FALSE,
                                        !.error = "createUser failed"]
            /\ UNCHANGED authAccounts
  /\ UNCHANGED <<signUpDocs, sessionVars, cacheVars, resetVars, recipeVars>>

\* await setDoc(doc(db, 'users', user.uid), {...}), then navigate('/dashboard').
SetUserDoc(ok) ==
  /\ signUp.pc = "setDoc"
  /\ IF ok
       THEN /\ signUpDocs' =
                 {d \in signUpDocs : d.uid # UidOf(signUp.form.email)}
                   \cup {SignUpDoc(UidOf(signUp.form.email), signUp.form.email,
                                   signUp.form.restaurantId, signUp.allRestaurantIds)}
            /\ signUp' = [signUp EXCEPT !.pc = "idle", !.loading = FALSE,
                                        !.navigated = TRUE]
       ELSE /\ signUp' = [signUp EXCEPT !.pc = "idle", !.loading = FALSE,
                                        !.error = "setDoc failed"]
            /\ UNCHANGED signUpDocs
  /\ UNCHANGED <<authAccounts, sessionVars, cacheVars, resetVars, recipeVars>>

(***************************************************************************)
(* Adding restaurants to a user's account: Dashboard.handleAddRestaurant   *)
(* (Dashboard.tsx, lines 84-172), JoinRestaurantButton (part_000, lines    *)
(* 16-111) and the users document UserManagement creates                   *)
(* (UserManagement.tsx, lines 136-161). Each tab runs one handler.         *)
(***************************************************************************)
\* The users who add restaurants: an owner whose document has no
\* restaurantIds, a manager whose document has the list, and a staff member
\* UserManagement creates.
Members == {"ada", "mia", "eli"}

\* The restaurant IDs typed: those of the three venues and one of no
\* restaurant.
TypedIds == Venues \cup {"nowhere"}

\* Everything but userDocs and tabs.
memberRest ==
  <<authUser, ctx, callbacks, switching, authFire, authEvents, signUpVars,
    closing, systemLogs, fn, obs, writes, clock, triggers, dash, cacheVars, recipeVars>>

\* Dashboard: userData.restaurantIds when it is an array, else
\* [userData.restaurantId].
CurrentRestaurantIds(d) == IF d.hasList THEN d.restaurantIds ELSE <<d.restaurantId>>

\* arrayUnion(...elements) applied to the stored list (empty when the field is
\* missing): the elements not yet in it are appended.
ArrayUnion(list, elements) ==
  list \o SelectSeq(elements, LAMBDA id : ~Includes(list, id))

\* Dashboard.handleAddRestaurant up to its first await.
DashboardAdd(t, u, id) ==
  /\ tabs[t].pc = "idle"
  /\ Trim(id) # ""
  /\ tabs' = [tabs EXCEPT ![t] = [@ EXCEPT !.pc = "getRestaurant", !.user = u,
                                            !.newRestaurantId = Trim(id)]]
  /\ UNCHANGED <<userDocs, memberRest>>

\* getDoc(doc(db, 'restaurants', newRestaurantId)) has answered.
DashboardRestaurantRead(t, ok) ==
  /\ tabs[t].pc = "getRestaurant"
  /\ tabs' = [tabs EXCEPT ![t] =
       IF ~ok
         THEN [@ EXCEPT !.pc = "done", !.result = "error",
                        !.error = "Failed to add restaurant"]
       ELSE IF tabs[t].newRestaurantId \notin Venues
         THEN [@ EXCEPT !.pc = "done", !.result = "error",
                        !.error = "Restaurant not found. Please check the Restaurant ID."]
       ELSE [@ EXCEPT !.pc = "getUser"]]
  /\ UNCHANGED <<userDocs, memberRest>>

\* getDoc(doc(db, 'users', user.uid)) has answered: the list to write is built
\* from the document as it was read.
DashboardUserRead(t, ok) ==
  /\ tabs[t].pc = "getUser"
  /\ LET userData == userDocs[tabs[t].user]
         currentRestaurantIds == CurrentRestaurantIds(userData) IN
     tabs' = [tabs EXCEPT ![t] =
       IF ~ok
         THEN [@ EXCEPT !.pc = "done", !.result = "error",
                        !.error = "Failed to add restaurant"]
       ELSE IF ~userData.exists
         THEN [@ EXCEPT !.pc = "done", !.result = "error", !.error = "User data not found"]
       ELSE IF Includes(currentRestaurantIds, tabs[t].newRestaurantId)
         THEN [@ EXCEPT !.pc = "done", !.result = "error",
                        !.error = "This restaurant is already in your account"]
       ELSE [@ EXCEPT !.pc = "update",
                      !.updatedRestaurantIds =
                         Append(currentRestaurantIds, tabs[t].newRestaurantId)]]
  /\ UNCHANGED <<userDocs, memberRest>>

\* updateDoc(doc(db, 'users', user.uid), { restaurantIds: updatedRestaurantIds })
\* has answered; it throws when the document is missing.
DashboardUpdate(t, ok) ==
  /\ tabs[t].pc = "update"
  /\ IF ok /\ userDocs[tabs[t].user].exists
       THEN /\ userDocs' = [userDocs EXCEPT
                              ![tabs[t].user].hasList = TRUE,
                              ![tabs[t].user].restaurantIds = tabs[t].updatedRestaurantIds]
            /\ tabs' = [tabs EXCEPT ![t] = [@ EXCEPT !.pc = "done", !.result = "success"]]
       ELSE /\ tabs' = [tabs EXCEPT ![t] = [@ EXCEPT !.pc = "done", !.result = "error",
                                                     !.error = "Failed to add restaurant"]]
            /\ UNCHANGED userDocs
  /\ UNCHANGED memberRest

\* JoinRestaurantButton.handleAddRestaurant: the ID typed is checked and put
\* on the list of the dialog; nothing is written.
JoinValidate(t, u, id, ok) ==
  /\ tabs[t].pc \in {"idle", "joining"}
  /\ tabs[t].pc = "joining" => u = tabs[t].user
  /\ Trim(id) # ""
  /\ LET trimmedRestaurantId == Trim(id)
         userData == userDocs[u]
         currentRestaurantIds == CurrentRestaurantIds(userData)
         joining == [tabs[t] EXCEPT !.pc = "joining", !.user = u] IN
     tabs' = [tabs EXCEPT ![t] =
       IF Includes(tabs[t].selectedRestaurantIds, trimmedRestaurantId)
         THEN [joining EXCEPT !.error = "already in your list"]
       ELSE IF ~ok THEN [joining EXCEPT !.error = "Failed to validate restaurant"]
       ELSE IF trimmedRestaurantId \notin Venues
         THEN [joining EXCEPT !.error = "does not exist"]
       ELSE IF ~userData.exists THEN [joining EXCEPT !.error = "User data not found"]
       ELSE IF Includes(currentRestaurantIds, trimmedRestaurantId)
         THEN [joining EXCEPT !.error = "You have already joined"]
       ELSE [joining EXCEPT !.error = "",
                            !.selectedRestaurantIds = Append(@, trimmedRestaurantId)]]
  /\ UNCHANGED <<userDocs, memberRest>>

\* JoinRestaurantButton.handleJoinAllRestaurants: updateDoc with arrayUnion of
\* the IDs on the list; it throws when the document is missing.
JoinAll(t, ok) ==
  /\ tabs[t].pc = "joining"
  /\ Len(tabs[t].selectedRestaurantIds) > 0
  /\ IF ok /\ userDocs[tabs[t].user].exists
       THEN /\ userDocs' = [userDocs EXCEPT
                              ![tabs[t].user].hasList = TRUE,
                              ![tabs[t].user].restaurantIds =
                                 ArrayUnion(IF userDocs[tabs[t].user].hasList THEN @ ELSE <<>>,
                                            tabs[t].selectedRestaurantIds)]
            /\ tabs' = [tabs EXCEPT ![t] = [@ EXCEPT !.pc = "done", !.result = "success",
                                                     !.error = ""]]
       ELSE /\ tabs' = [tabs EXCEPT ![t] = [@ EXCEPT !.pc = "done", !.result = "error",
                                                     !.error = "Failed to join restaurants"]]
            /\ UNCHANGED userDocs
  /\ UNCHANGED memberRest

\* UserManagement.handleSubmit for a new user, in the restaurant of the admin:
\* the users document it writes has a restaurantId and no restaurantIds.
UserManagementCreate(restaurantId, role, ok) ==
  /\ ~userDocs["eli"].exists
  /\ userDocs' = IF ok THEN [userDocs EXCEPT !["eli"] = UserDoc(role, restaurantId, FALSE, <<>>)]
                 ELSE userDocs
  /\ UNCHANGED <<tabs, memberRest>>

(***************************************************************************)
(* The listeners of the Dashboard (Dashboard.tsx, lines 180-426). Each     *)
(* onSnapshot callback sets its count in stats, awaits the user names of   *)
(* its first five documents and then replaces the activities of its type.  *)
(***************************************************************************)
\* The documents of a collection of a restaurant, newest first. "cafe" has an
\* open item in every collection; "expiry_cafe" has a finished prep item and
\* a fridge log and nothing else. createdBy is a user id in all of them, so
\* fetchUserData reads the user's document.
Collection(restaurantId, kind) ==
  IF restaurantId = "cafe"
    THEN <<[id |-> "cafe-" \o kind, restaurantId |-> "cafe", done |-> FALSE,
            createdAt |-> CASE kind = "prep" -> 5 [] kind = "order" -> 4
                            [] kind = "closing" -> 3 [] kind = "fridge" -> 2
                            [] OTHER -> 1]>>
  ELSE IF kind \in {"prep", "fridge"}
    THEN <<[id |-> "expiry-" \o kind, restaurantId |-> "expiry_cafe", done |-> TRUE,
            createdAt |-> IF kind = "prep" THEN 7 ELSE 6]>>
  ELSE <<>>

\* snapshot.docs.filter(doc => data.done === false || data.done === undefined).length
ActiveCount(docs) == Len(SelectSeq(docs, LAMBDA d : ~d.done))

\* The activities a callback builds from snapshot.docs.slice(0, 5).
Activities(docs, kind) ==
  LET first == Slice(docs, 5) IN
  [k \in 1..Len(first) |->
     [id |-> first[k].id, type |-> kind, timestamp |-> first[k].createdAt,
      restaurantId |-> first[k].restaurantId]]

\* setRecentActivity(prev => [...activities, ...others].sort(...).slice(0, 10))
SetRecentActivity(prev, activities, kind) ==
  LET otherActivities == SelectSeq(prev, LAMBDA activity : activity.type # kind) IN
  Slice(SortSeq(activities \o otherActivities, LAMBDA a, b : a.timestamp > b.timestamp), 10)

\* The end of a callback: setRecentActivity, and setLoading(false) in the
\* callback of the order list.
CallbackEnd(d, activities, kind) ==
  [d EXCEPT !.recentActivity = SetRecentActivity(@, activities, kind),
            !.loading = IF kind = "order" THEN FALSE ELSE @]

\* Everything but dash.
dashRest ==
  <<closing, systemLogs, fn, obs, writes, clock, triggers, tabs, cacheVars, authVars,
    recipeVars>>

\* The listener of the current restaurant for a collection delivers its first
\* snapshot: the callback sets its count and awaits the user names. With no
\* document there is nothing to await and the callback ends at once.
SnapshotDelivered(kind) ==
  /\ kind \notin dash.delivered
  /\ LET docs == Collection(dash.restaurantId, kind)
         counted == [dash EXCEPT !.delivered = @ \cup {kind},
                                 !.stats = IF kind \in Counted
                                             THEN [@ EXCEPT ![kind] = ActiveCount(docs)]
                                             ELSE @] IN
     dash' = IF Len(docs) = 0
               THEN CallbackEnd(counted, <<>>, kind)
               ELSE [counted EXCEPT !.pending =
                       @ \cup {[restaurantId |-> dash.restaurantId, kind |-> kind,
                                activities |-> Activities(docs, kind)]}]
  /\ UNCHANGED dashRest

\* The user names a callback awaited have come: the callback ends, whether
\* its listener is still subscribed or not.
LookupsDone(c) ==
  /\ c \in dash.pending
  /\ dash' = [CallbackEnd(dash, c.activities, c.kind) EXCEPT !.pending = @ \ {c}]
  /\ UNCHANGED dashRest

\* restaurantId of the context changes: the cleanup of the effect unsubscribes
\* every listener and the effect subscribes those of the new restaurant.
DashboardRestaurantChanged(id) ==
  /\ id # dash.restaurantId
  /\ dash.switches < MaxSwitches
  /\ dash' = [dash EXCEPT !.restaurantId = id, !.delivered = {}, !.switches = @ + 1]
  /\ UNCHANGED dashRest

(***************************************************************************)
(* Initial states and specifications. A specification runs one subsystem;  *)
(* the variables of the others keep their parked values.                   *)
(***************************************************************************)
ParkedCache ==
  /\ localStorage = [k \in StorageKeys |-> NoValue]
  /\ now = 0
  /\ ticks = 0
  /\ lastCall = NoCall
  /\ stored = [r \in RestaurantIds |-> -1]

ParkedAuth ==
  /\ userDocs = InitialUserDocs
  /\ authUser = "null"
  /\ ctx = InitialContext
  /\ callbacks = <<>>
  /\ switching = "null"
  /\ authFire = TRUE
  /\ authEvents = 0
  /\ ParkedSignUp

ParkedRecipes ==
  /\ categoriesDocs = [r \in RestaurantIds |-> NoCategoriesDoc]
  /\ recipeDocs = {}
  /\ nextId = 1
  /\ page = InitialPage("cafe")
  /\ loads = <<>>
  /\ exportFile = NoFile
  /\ recipeOps = 0
  /\ lastWrites = <<>>
  /\ created = NoCreated

InitReset ==
  /\ ParkedCache
  /\ ParkedAuth
  /\ ParkedRecipes
  /\ closing \in [ItemIds -> {Absent, NewItem("mop floor"), DoneItem("mop floor")}]
  /\ systemLogs = <<>>
  /\ fn = Idle
  /\ obs = NoObs
  /\ writes = 0
  /\ ParkedSchedule

ClientWrite ==
  \E i \in ItemIds :
    \/ \E n \in ItemNames : ClosingAdd(i, n)
    \/ \E n \in ItemNames : ClosingEdit(i, n)
    \/ ClosingDelete(i)
    \/ ClosingComplete(i)

NextReset ==
  \/ ClientWrite
  \/ \E k \in {"daily", "manual"} : Start(k)
  \/ \E ok \in BOOLEAN : GetRestaurants(ok)
  \/ \E ok \in BOOLEAN : QueryItems(ok)
  \/ \E ok \in BOOLEAN : Commit(ok)
  \/ \E ok \in BOOLEAN : LogSuccess(ok)
  \/ \E ok \in BOOLEAN : CatchDaily(ok)
  \/ CatchManual
  \/ Finish

SpecReset == InitReset /\ [][NextReset]_vars

ParkedReset ==
  /\ closing = [i \in ItemIds |-> Absent]
  /\ systemLogs = <<>>
  /\ fn = Idle
  /\ obs = NoObs
  /\ writes = 0
  /\ ParkedSchedule

\* The function is deployed at some hour of a day, in winter or in summer.
InitSchedule ==
  /\ closing = [i \in ItemIds |-> Absent]
  /\ systemLogs = <<>>
  /\ fn = Idle
  /\ obs = NoObs
  /\ writes = 0
  /\ clock \in [day : {0}, hour : 0..23, season : Seasons]
  /\ triggers = <<>>
  /\ tabs = [t \in Tabs |-> IdleTab]
  /\ dash = InitialDashboard("cafe")
  /\ ParkedCache
  /\ ParkedAuth
  /\ ParkedRecipes

NextSchedule ==
  \/ HourPasses
  \/ ScheduleFires

SpecSchedule == InitSchedule /\ [][NextSchedule]_vars

InitCache ==
  /\ ParkedReset
  /\ ParkedCache
  /\ ParkedAuth
  /\ ParkedRecipes

\* A page load in a browser whose localStorage may hold the preference of an
\* earlier session and whose auth session may persist.
InitAuth ==
  /\ ParkedReset
  /\ ParkedRecipes
  /\ now = 0
  /\ ticks = 0
  /\ lastCall = NoCall
  /\ stored = [r \in RestaurantIds |-> -1]
  /\ \E saved \in {NoValue} \cup {Text(id) : id \in RestaurantIds} :
       localStorage = [k \in StorageKeys |->
                         IF k = "currentRestaurantId" THEN saved ELSE NoValue]
  /\ userDocs = InitialUserDocs
  /\ authUser \in Uids \cup {"null"}
  /\ ctx = InitialContext
  /\ callbacks = <<>>
  /\ switching = "null"
  /\ authFire = TRUE
  /\ authEvents = 0
  /\ ParkedSignUp

NextAuth ==
  \/ AuthFirstCallback
  \/ \E u \in Uids \cup {"null"} : AuthStateChanged(u)
  \/ PageLoad
  \/ \E k \in 1..MaxAuthEvents + 1, ok \in BOOLEAN : GetUserDoc(k, ok)
  \/ \E k \in 1..MaxAuthEvents + 1, failed \in SUBSET RestaurantIds :
       LoadAvailableRestaurants(k, failed)
  \/ \E k \in 1..MaxAuthEvents + 1, ok \in BOOLEAN : GetRestaurantDoc(k, ok)
  \/ \E id \in RestaurantIds : SwitchRestaurantCalled(id)
  \/ \E ok \in BOOLEAN : SwitchRestaurantDone(ok)

SpecAuth == InitAuth /\ [][NextAuth]_vars

\* The sign-up page is opened by a visitor.
InitSignUp ==
  /\ ParkedReset
  /\ ParkedCache
  /\ ParkedAuth
  /\ ParkedRecipes

NextSignUp ==
  \/ \E form \in SignUpForms : SignUpSubmit(form)
  \/ \E ok \in BOOLEAN : CheckRestaurant(ok)
  \/ \E ok \in BOOLEAN : CreateUser(ok)
  \/ \E ok \in BOOLEAN : SetUserDoc(ok)

SpecSignUp == InitSignUp /\ [][NextSignUp]_vars

\* The users collection before the staff member is created; nobody has added
\* a restaurant yet.
InitMembers ==
  /\ ParkedReset
  /\ ParkedCache
  /\ ParkedRecipes
  /\ ParkedSignUp
  /\ userDocs = [InitialUserDocs EXCEPT !["eli"] = NoUserDoc]
  /\ authUser = "null"
  /\ ctx = InitialContext
  /\ callbacks = <<>>
  /\ switching = "null"
  /\ authFire = TRUE
  /\ authEvents = 0

NextMembers ==
  \/ \E t \in Tabs, u \in Members, id \in TypedIds : DashboardAdd(t, u, id)
  \/ \E t \in Tabs, ok \in BOOLEAN : DashboardRestaurantRead(t, ok)
  \/ \E t \in Tabs, ok \in BOOLEAN : DashboardUserRead(t, ok)
  \/ \E t \in Tabs, ok \in BOOLEAN : DashboardUpdate(t, ok)
  \/ \E t \in Tabs, u \in Members, id \in TypedIds, ok \in BOOLEAN :
       JoinValidate(t, u, id, ok)
  \/ \E t \in Tabs, ok \in BOOLEAN : JoinAll(t, ok)
  \/ \E restaurantId \in RestaurantIds, role \in {"employee", "manager"},
        ok \in BOOLEAN :
       UserManagementCreate(restaurantId, role, ok)

SpecMembers == InitMembers /\ [][NextMembers]_vars

\* The Dashboard is opened for one of the restaurants.
InitDashboard ==
  /\ closing = [i \in ItemIds |-> Absent]
  /\ systemLogs = <<>>
  /\ fn = Idle
  /\ obs = NoObs
  /\ writes = 0
  /\ clock = [day |-> 0, hour |-> 0, season |-> "winter"]
  /\ triggers = <<>>
  /\ tabs = [t \in Tabs |-> IdleTab]
  /\ dash \in {InitialDashboard(id) : id \in RestaurantIds}
  /\ ParkedCache
  /\ ParkedAuth
  /\ ParkedRecipes

NextDashboard ==
  \/ \E kind \in Kinds : SnapshotDelivered(kind)
  \/ \E c \in dash.pending : LookupsDone(c)
  \/ \E id \in RestaurantIds : DashboardRestaurantChanged(id)

SpecDashboard == InitDashboard /\ [][NextDashboard]_vars

NextCache ==
  \/ \E r \in RestaurantIds, failed \in {"none", "getItem", "removeItem"} :
       CallGet(r, failed)
  \/ \E r \in RestaurantIds, p \in CachePayloads, f \in {"none", "data", "expiry"} :
       CallSet(r, p, f)
  \/ \E r \in RestaurantIds, failed \in {"none", "data", "expiry"} : CallClear(r, failed)
  \/ \E d \in {1, CACHE_DURATION} : Tick(d)

SpecCache == InitCache /\ [][NextCache]_vars

\* The recipe documents before the page is opened: one written by an earlier
\* version of the panel, with its image stored as a string.
InitialRecipeDocs ==
  {RecipeDoc("cafe", "mains", 1,
             RecipeData("mains", ImageString("stew.jpg"), <<"beef">>, <<"simmer">>, "",
                        "stew", 0))}

\* The Recipes page is opened by a manager of both restaurants, in a browser
\* with an empty cache.
InitRecipes ==
  /\ ParkedReset
  /\ ParkedAuth
  /\ now = 0
  /\ ticks = 0
  /\ lastCall = NoCall
  /\ stored = [r \in RestaurantIds |-> -1]
  /\ categoriesDocs \in
       [RestaurantIds -> {NoCategoriesDoc, CategoriesDoc(<<"mains", "desserts">>)}]
  /\ categoriesDocs["cafe"].exists
  /\ recipeDocs = InitialRecipeDocs
  /\ nextId = 2
  /\ \E restaurantId \in {"cafe"} :
       LET w == Mount(restaurantId, [k \in StorageKeys |-> NoValue], 0) IN
       /\ page = w.page
       /\ localStorage = w.storage
       /\ loads = w.loads
  /\ exportFile = NoFile
  /\ recipeOps = 0
  /\ lastWrites = <<>>
  /\ created = NoCreated

NextRecipes ==
  \/ OpenAddModal
  \/ \E recipe \in page.recipes : HandleEdit(recipe)
  \/ \E category \in CategoryNames, input \in FormInputs : FillForm(category, input)
  \/ CloseModal
  \/ \E k \in 1..Len(loads), ok \in BOOLEAN : LoadCategoriesDone(k, ok)
  \/ \E k \in 1..Len(loads), ok \in BOOLEAN : LoadAllRecipesDone(k, ok)
  \/ \E failed \in {"none", "upload", "delete", "write"},
        copyFailed \in UniformCopyFailures :
       HandleSubmit(failed, copyFailed)
  \/ \E recipe \in page.recipes, ok \in BOOLEAN : HandleDelete(recipe, ok)
  \/ \E newCategoryName \in CategoryNames \cup {" "}, failed \in {"none", "get", "set"} :
       HandleAddCategory(newCategoryName, failed)
  \/ \E categoryToDelete \in CategoryNames, ok \in BOOLEAN :
       DeleteCategory(categoryToDelete, ok)
  \/ \E ok \in BOOLEAN : ExportRecipes(ok)
  \/ \E failed \in {"none", "get", "set"}, skipped \in SUBSET (1..nextId) :
       ImportRecipes(failed, skipped)
  \/ ReloadTimer
  \/ Reload
  \/ \E id \in RestaurantIds : RestaurantIdChanged(id)
  \/ \E restaurantId \in RestaurantIds, categoryToDelete \in CategoryNames :
       OtherSessionDeleteCategory(restaurantId, categoryToDelete)

SpecRecipes == InitRecipes /\ [][NextRecipes]_vars

\* The Recipes page is opened on "cafe" by a manager of both restaurants; the
\* other restaurant lists one category only.
InitSubmit ==
  /\ ParkedReset
  /\ ParkedAuth
  /\ now = 0
  /\ ticks = 0
  /\ lastCall = NoCall
  /\ stored = [r \in RestaurantIds |-> -1]
  /\ categoriesDocs = [r \in RestaurantIds |->
                         IF r = "cafe" THEN CategoriesDoc(<<"mains", "desserts">>)
                                       ELSE CategoriesDoc(<<"desserts">>)]
  /\ recipeDocs = InitialRecipeDocs
  /\ nextId = 2
  /\ LET w == Mount("cafe", [k \in StorageKeys |-> NoValue], 0) IN
     /\ page = w.page
     /\ localStorage = w.storage
     /\ loads = w.loads
  /\ exportFile = NoFile
  /\ recipeOps = 0
  /\ lastWrites = <<>>
  /\ created = NoCreated

\* The page with its recipe form; the manager may switch to the other
\* restaurant.
NextSubmit ==
  \/ OpenAddModal
  \/ \E recipe \in page.recipes : HandleEdit(recipe)
  \/ \E category \in CategoryNames, input \in FormInputs : FillForm(category, input)
  \/ CloseModal
  \/ \E k \in 1..Len(loads), ok \in BOOLEAN : LoadCategoriesDone(k, ok)
  \/ \E k \in 1..Len(loads), ok \in BOOLEAN : LoadAllRecipesDone(k, ok)
  \/ \E failed \in {"none", "upload", "delete", "write"},
        copyFailed \in UniformCopyFailures :
       HandleSubmit(failed, copyFailed)
  \/ RestaurantIdChanged("expiry_cafe")

SpecSubmit == InitSubmit /\ [][NextSubmit]_vars

\* An import file from a restaurant whose recipe "mezze" has nine pictures.
GalleryExport ==
  [exportVersion |-> "1.0", restaurantId |-> "bistro", categories |-> <<"mains">>,
   recipes |-> {[id |-> 7, category |-> "mains",
                 image |-> ImageArrayOf(<<"1.jpg", "2.jpg", "3.jpg", "4.jpg", "5.jpg",
                                          "6.jpg", "7.jpg", "8.jpg", "9.jpg">>),
                 ingredients |-> <<"olives">>, instructions |-> <<"plate">>,
                 notes |-> "", recipeName |-> "mezze", createdAt |-> 0]}]

\* The Recipes page is opened on "cafe" with that file at hand.
InitImages ==
  /\ ParkedReset
  /\ ParkedAuth
  /\ now = 0
  /\ ticks = 0
  /\ lastCall = NoCall
  /\ stored = [r \in RestaurantIds |-> -1]
  /\ categoriesDocs = [r \in RestaurantIds |->
                         IF r = "cafe" THEN CategoriesDoc(<<"mains", "desserts">>)
                                       ELSE CategoriesDoc(<<"desserts">>)]
  /\ recipeDocs = InitialRecipeDocs
  /\ nextId = 2
  /\ LET w == Mount("cafe", [k \in StorageKeys |-> NoValue], 0) IN
     /\ page = w.page
     /\ localStorage = w.storage
     /\ loads = w.loads
  /\ exportFile = GalleryExport
  /\ recipeOps = 0
  /\ lastWrites = <<>>
  /\ created = NoCreated

\* The page with its recipe form and its import dialog.
NextImages ==
  \/ OpenAddModal
  \/ \E recipe \in page.recipes : HandleEdit(recipe)
  \/ \E category \in CategoryNames, input \in FormInputs : FillForm(category, input)
  \/ CloseModal
  \/ \E k \in 1..Len(loads), ok \in BOOLEAN : LoadCategoriesDone(k, ok)
  \/ \E k \in 1..Len(loads), ok \in BOOLEAN : LoadAllRecipesDone(k, ok)
  \/ \E failed \in {"none", "upload", "delete", "write"},
        copyFailed \in UniformCopyFailures :
       HandleSubmit(failed, copyFailed)
  \/ \E failed \in {"none", "get", "set"}, skipped \in SUBSET {7} :
       ImportRecipes(failed, skipped)
  \/ ReloadTimer

SpecImages == InitImages /\ [][NextImages]_vars

\* The recipe form of a manager of three venues, open for a new recipe in
\* "cafe" and filled, with other venues ticked for copying.
CopySelections ==
  {<<>>, <<"expiry_cafe">>, <<"bistro">>, <<"expiry_cafe", "bistro">>,
   <<"bistro", "expiry_cafe">>}

InitCopy ==
  /\ ParkedReset
  /\ ParkedAuth
  /\ now = 0
  /\ ticks = 0
  /\ lastCall = NoCall
  /\ stored = [r \in RestaurantIds |-> -1]
  /\ categoriesDocs \in
       [Venues -> {NoCategoriesDoc, CategoriesDoc(<<"desserts">>),
                   CategoriesDoc(<<"mains", "desserts">>)}]
  /\ categoriesDocs["cafe"] = CategoriesDoc(<<"mains", "desserts">>)
  /\ categoriesDocs["expiry_cafe"] # CategoriesDoc(<<"mains", "desserts">>)
  /\ recipeDocs = InitialRecipeDocs
  /\ nextId = 2
  /\ \E category \in CategoryNames, selected \in CopySelections :
       page = [InitialPage("cafe") EXCEPT
                 !.categories = <<"mains", "desserts">>,
                 !.recipes = RecipesUnder(InitialRecipeDocs, "cafe", <<"mains", "desserts">>),
                 !.loading = FALSE,
                 !.shown = "backend",
                 !.showModal = TRUE,
                 !.formData = [EmptyForm EXCEPT !.category = category,
                                                !.recipeName = "soup",
                                                !.ingredients = <<"salt">>,
                                                !.instructions = <<"boil">>],
                 !.selectedRestaurantIds = selected]
  /\ localStorage =
       [k \in StorageKeys \cup {CACHE_KEY("bistro"), CACHE_EXPIRY_KEY("bistro")} |-> NoValue]
  /\ loads = <<>>
  /\ exportFile = NoFile
  /\ recipeOps = 0
  /\ lastWrites = <<>>
  /\ created = NoCreated

NextCopy ==
  \/ \E failed \in {"none", "write"}, copyFailed \in [Venues -> CopyFailures] :
       HandleSubmit(failed, copyFailed)
  \/ \E k \in 1..Len(loads), ok \in BOOLEAN : LoadCategoriesDone(k, ok)
  \/ \E k \in 1..Len(loads), ok \in BOOLEAN : LoadAllRecipesDone(k, ok)

SpecCopy == InitCopy /\ [][NextCopy]_vars

\* The loads racing each other: every read succeeds, and the manager adds or
\* deletes a category or switches the restaurant while loads are pending.
NextRace ==
  \/ \E k \in 1..Len(loads) : LoadCategoriesDone(k, TRUE)
  \/ \E k \in 1..Len(loads) : LoadAllRecipesDone(k, TRUE)
  \/ \E newCategoryName \in CategoryNames : HandleAddCategory(newCategoryName, "none")
  \/ \E categoryToDelete \in CategoryNames : DeleteCategory(categoryToDelete, TRUE)
  \/ \E id \in RestaurantIds : RestaurantIdChanged(id)

SpecRace == InitRecipes /\ [][NextRace]_vars

\* The page with its loads alone: the manager only reloads or switches the
\* restaurant.
NextLoading ==
  \/ \E k \in 1..Len(loads), ok \in BOOLEAN : LoadCategoriesDone(k, ok)
  \/ \E k \in 1..Len(loads), ok \in BOOLEAN : LoadAllRecipesDone(k, ok)
  \/ Reload
  \/ \E id \in RestaurantIds : RestaurantIdChanged(id)

\* Every read the page awaits comes back, with a result or with an error.
ReadsComeBack ==
  /\ WF_vars(\E k \in 1..Len(loads), ok \in BOOLEAN : LoadCategoriesDone(k, ok))
  /\ WF_vars(\E k \in 1..Len(loads), ok \in BOOLEAN : LoadAllRecipesDone(k, ok))

SpecLoading == InitRecipes /\ [][NextLoading]_vars /\ ReadsComeBack

\* A file at hand that was edited after its export from "cafe": its recipe
\* has an empty name and an empty image. importRecipes takes any JSON file
\* with a categories and a recipes array.
EarlierExport ==
  ExportData([r \in RestaurantIds |-> CategoriesDoc(<<"desserts", "mains">>)],
             {RecipeDoc("cafe", "mains", 1,
                        RecipeData("mains", ImageString(""), <<"beef">>, <<"simmer">>,
                                   "draft", "", 0))},
             "cafe")

\* The Recipes page is opened with an export file at hand or without one.
InitImport ==
  /\ ParkedReset
  /\ ParkedAuth
  /\ now = 0
  /\ ticks = 0
  /\ lastCall = NoCall
  /\ stored = [r \in RestaurantIds |-> -1]
  /\ categoriesDocs \in
       [RestaurantIds -> {NoCategoriesDoc, CategoriesDoc(<<"mains", "desserts">>)}]
  /\ categoriesDocs["cafe"].exists
  /\ recipeDocs = InitialRecipeDocs
  /\ nextId = 2
  /\ LET w == Mount("cafe", [k \in StorageKeys |-> NoValue], 0) IN
     /\ page = w.page
     /\ localStorage = w.storage
     /\ loads = w.loads
  /\ exportFile \in {NoFile, EarlierExport}
  /\ recipeOps = 0
  /\ lastWrites = <<>>
  /\ created = NoCreated

\* The page without its recipe form: the list, the category manager and the
\* export and import dialogs.
NextImport ==
  \/ \E k \in 1..Len(loads), ok \in BOOLEAN : LoadCategoriesDone(k, ok)
  \/ \E k \in 1..Len(loads), ok \in BOOLEAN : LoadAllRecipesDone(k, ok)
  \/ \E recipe \in page.recipes, ok \in BOOLEAN : HandleDelete(recipe, ok)
  \/ \E newCategoryName \in CategoryNames \cup {" "}, failed \in {"none", "get", "set"} :
       HandleAddCategory(newCategoryName, failed)
  \/ \E categoryToDelete \in CategoryNames, ok \in BOOLEAN :
       DeleteCategory(categoryToDelete, ok)
  \/ \E ok \in BOOLEAN : ExportRecipes(ok)
  \/ \E failed \in {"none", "get", "set"}, skipped \in SUBSET (1..nextId) :
       ImportRecipes(failed, skipped)
  \/ ReloadTimer
  \/ Reload
  \/ \E id \in RestaurantIds : RestaurantIdChanged(id)
  \/ \E restaurantId \in RestaurantIds, categoryToDelete \in CategoryNames :
       OtherSessionDeleteCategory(restaurantId, categoryToDelete)

SpecImport == InitImport /\ [][NextImport]_vars

\* The recipes of the two restaurants before a round trip: "cafe" holds the
\* early recipe "stew" and "tart", saved with two images, no ingredient and
\* a note; "expiry_cafe" holds "flan".
RoundTripDocs ==
  InitialRecipeDocs \cup
  {RecipeDoc("cafe", "desserts", 2,
             RecipeData("desserts", ImageArrayOf(<<"tart.jpg", "slice.jpg">>), <<>>,
                        <<"bake">>, "serve cold", "tart", 0)),
   RecipeDoc("expiry_cafe", "desserts", 3,
             RecipeData("desserts", ImageArrayOf(<<"flan.jpg">>), <<"eggs">>,
                        <<"steam">>, "", "flan", 0))}

\* The Recipes page is opened in one of the two restaurants, without a file
\* or with the file exportRecipes downloaded from "cafe" in an earlier
\* session.
InitRoundTrip ==
  /\ ParkedReset
  /\ ParkedAuth
  /\ now = 0
  /\ ticks = 0
  /\ lastCall = NoCall
  /\ stored = [r \in RestaurantIds |-> -1]
  /\ categoriesDocs \in
       [RestaurantIds -> {NoCategoriesDoc, CategoriesDoc(<<"mains", "desserts">>),
                          CategoriesDoc(<<"desserts">>)}]
  /\ categoriesDocs["cafe"] = CategoriesDoc(<<"mains", "desserts">>)
  /\ recipeDocs \in {d \in SUBSET RoundTripDocs :
                       \A x \in d : Includes(NamesOf(categoriesDocs[x.restaurantId]),
                                             x.category)}
  /\ nextId = 4
  /\ \E restaurantId \in RestaurantIds :
       LET w == Mount(restaurantId, [k \in StorageKeys |-> NoValue], 0) IN
       /\ page = w.page
       /\ localStorage = w.storage
       /\ loads = w.loads
  /\ exportFile \in {NoFile, ExportData(categoriesDocs, recipeDocs, "cafe")}
  /\ recipeOps = 0
  /\ lastWrites = <<>>
  /\ created = NoCreated

\* The list, the category manager and the export and import dialogs, with
\* the files exportRecipes has written.
NextRoundTrip ==
  \/ \E k \in 1..Len(loads), ok \in BOOLEAN : LoadCategoriesDone(k, ok)
  \/ \E k \in 1..Len(loads), ok \in BOOLEAN : LoadAllRecipesDone(k, ok)
  \/ \E newCategoryName \in CategoryNames, failed \in {"none", "set"} :
       HandleAddCategory(newCategoryName, failed)
  \/ \E categoryToDelete \in CategoryNames, ok \in BOOLEAN :
       DeleteCategory(categoryToDelete, ok)
  \/ \E ok \in BOOLEAN : ExportRecipes(ok)
  \/ \E failed \in {"none", "get", "set"}, skipped \in SUBSET (1..3) :
       ImportRecipes(failed, skipped)
  \/ ReloadTimer
  \/ \E id \in RestaurantIds : RestaurantIdChanged(id)

SpecRoundTrip == InitRoundTrip /\ [][NextRoundTrip]_vars

(***************************************************************************)
(* Claims about the reset functions (checked under SpecReset).             *)
(***************************************************************************)
RunDone == fn.pc = "done"

DailyDone == RunDone /\ fn.kind = "daily"

LastLog == systemLogs[Len(systemLogs)]

\* C1: after resetClosingChecklistDaily or resetClosingChecklistManual has
\* completed successfully, with no client write to a closinglist collection
\* since the run began, every closinglist document of every restaurant has
\* done = false.
C1_ResetLeavesNothingDone ==
  (RunDone /\ fn.result = "success" /\ ~obs.clientWrote)
    => \A i \in ItemIds : closing[i].exists => ~closing[i].done

\* A successful, undisturbed run that found at least two completed items.
C1_Witness ==
  /\ RunDone /\ fn.result = "success" /\ ~obs.clientWrote
  /\ obs.doneAtStart >= 2
  /\ Cardinality(obs.resetItems) >= 2

\* C9: a step of a reset run changes only the done field, and only of
\* closinglist documents that were done when queried; every other field, every
\* other closinglist document and every other document stay as they are, and
\* system_logs only grows by the appended entry.
C9_ResetFrame ==
  [][(fn' # fn) =>
       /\ \A i \in ItemIds :
            closing'[i] # closing[i] =>
              /\ i \in fn.closingItemsSnapshot
              /\ closing'[i] = [closing[i] EXCEPT !.done = FALSE]
       /\ \/ systemLogs' = systemLogs
          \/ /\ Len(systemLogs') = Len(systemLogs) + 1
             /\ SubSeq(systemLogs', 1, Len(systemLogs)) = systemLogs]_vars

\* A run has reset a completed item, whose completion stamp is still there,
\* next to a document it had no reason to touch.
C9_Witness ==
  /\ RunDone
  /\ \E i \in obs.resetItems :
       closing[i].exists /\ ~closing[i].done /\ closing[i].completedAt
  /\ \E j \in ItemIds \ obs.resetItems : closing[j].exists

\* C10 as stated: every run of the daily function ends with exactly one new
\* system_logs entry; on success it has success = true, totalRestaurants = the
\* number of restaurant documents and totalItemsReset = the number of items
\* that were done before the run; on failure it has success = false and the
\* error message, and that error is rethrown.
C10_DailyAlwaysLogsOutcome ==
  DailyDone =>
    /\ Len(systemLogs) = obs.logsAtStart + 1
    /\ fn.result = "success" =>
         /\ LastLog.success
         /\ LastLog.totalRestaurants = Cardinality(RestaurantIds)
         /\ LastLog.totalItemsReset = obs.doneAtStart
    /\ fn.result = "failure" =>
         /\ ~LastLog.success
         /\ LastLog.error = fn.error
         /\ fn.thrown = fn.error

\* C10 amended: a successful daily run appends exactly one entry with
\* success = true, totalRestaurants = the number of restaurant documents and
\* totalItemsReset = the number of items the run reset (the number done before
\* the run when no client wrote meanwhile); a failed run whose error entry is
\* written appends exactly that entry and rethrows the error; when writing the
\* error entry fails too, no entry is appended and the logging error is thrown.
C10_DailyLogsOutcomeAmended ==
  DailyDone =>
    /\ fn.result = "success" =>
         /\ Len(systemLogs) = obs.logsAtStart + 1
         /\ LastLog.success
         /\ LastLog.totalRestaurants = Cardinality(RestaurantIds)
         /\ LastLog.totalItemsReset = Cardinality(obs.resetItems)
         /\ ~obs.clientWrote => LastLog.totalItemsReset = obs.doneAtStart
    /\ (fn.result = "failure" /\ fn.thrown = fn.error) =>
         /\ Len(systemLogs) = obs.logsAtStart + 1
         /\ ~LastLog.success
         /\ LastLog.error = fn.error
    /\ (fn.result = "failure" /\ fn.thrown # fn.error) =>
         /\ Len(systemLogs) = obs.logsAtStart
         /\ fn.thrown = "system_logs add failed in catch"

\* A successful daily run whose count differs from the number of items that
\* were done before it, a client having written meanwhile.
C10_Witness ==
  /\ DailyDone /\ fn.result = "success"
  /\ obs.clientWrote
  /\ Len(systemLogs) = obs.logsAtStart + 1
  /\ LastLog.totalItemsReset >= 1
  /\ LastLog.totalItemsReset # obs.doneAtStart

\* The position of restaurant r in the snapshot of the run.
SnapshotIndex(r) ==
  CHOOSE k \in 1..Len(RestaurantDocs) : RestaurantDocs[k] = r

GmtPlusOne(utcHour) == (utcHour + 1) % 24

\* C17: the daily reset is triggered once per day, at 03:00 in GMT+1, which is
\* 02:00 UTC.
C17_DailyResetAtThreeGmtPlusOne ==
  /\ \A k \in 1..Len(triggers) :
       /\ triggers[k].utcHour = 2
       /\ GmtPlusOne(triggers[k].utcHour) = 3
  /\ \A j, k \in 1..Len(triggers) : j < k => triggers[k].day = triggers[j].day + (k - j)

(***************************************************************************)
(* Claims about the Recipes cache (checked under SpecCache).               *)
(***************************************************************************)
\* The two localStorage entries of restaurant r.
CacheEntry(r) == <<localStorage[CACHE_KEY(r)], localStorage[CACHE_EXPIRY_KEY(r)]>>

\* C2: the cache has a 5-minute TTL. Right after getCachedData(r), localStorage
\* having answered every call: a returned
\* entry was written at most 300000 ms ago; while the time is not later than
\* the write time plus 300000 ms the call returns the entry setCachedData
\* wrote; later than that it returns null and both keys of r are gone.
C2_CacheHasFiveMinuteTTL ==
  (lastCall.op = "get" /\ lastCall.failed = "none") =>
    LET r == lastCall.restaurantId IN
    /\ lastCall.result # Null =>
         now <= lastCall.result.timestamp + CACHE_DURATION
    /\ (stored[r] >= 0 /\ now <= stored[r] + CACHE_DURATION) =>
         /\ lastCall.result # Null
         /\ lastCall.result.timestamp = stored[r]
    /\ (stored[r] >= 0 /\ now > stored[r] + CACHE_DURATION) =>
         /\ lastCall.result = Null
         /\ CacheEntry(r) = <<NoValue, NoValue>>

\* getCachedData(r) is called exactly at the expiry instant of an entry, and
\* right after it.
C2_Witness ==
  /\ lastCall.op = "get" /\ lastCall.failed = "none"
  /\ stored[lastCall.restaurantId] >= 0
  /\ now = stored[lastCall.restaurantId] + CACHE_DURATION + 1
  /\ lastCall.result = Null

\* C3: the cache is restaurant-scoped. getCachedData(r) never returns data of
\* another restaurant, and a setCachedData or clearCache call for r leaves the
\* entries of every other restaurant as they were.
C3_CacheIsRestaurantScoped ==
  /\ [](lastCall.op = "get" /\ lastCall.result # Null
          => lastCall.result.restaurantId = lastCall.restaurantId)
  /\ [][lastCall'.op \in {"set", "clear"} =>
          \A r \in RestaurantIds \ {lastCall'.restaurantId} :
            CacheEntry(r)' = CacheEntry(r)]_vars

\* C12: a cache helper never lets an exception of localStorage reach the page:
\* when a storage call throws, or the stored text is not the JSON of a cache
\* object, getCachedData returns null, and setCachedData and clearCache return
\* normally.
C12_CacheHelpersSwallowStorageErrors ==
  /\ ~lastCall.threw
  /\ (lastCall.op = "get" /\ lastCall.failed = "getItem") => lastCall.result = Null

(***************************************************************************)
(* Claims about the route guard and the session context (checked under     *)
(* SpecAuth).                                                              *)
(***************************************************************************)
\* C4: ProtectedRoute renders its children only when the context is not
\* loading, a user is signed in and userRole is 'admin' or 'manager'; once
\* loading is over it redirects to /signin when no user is signed in, and
\* shows Access Denied when a user with any other role is.
C4_ProtectedRouteDecision ==
  LET shown == ProtectedRoute(ctx) IN
  /\ shown = "children" =>
       ~ctx.loading /\ ctx.user # "null" /\ ctx.userRole \in {"admin", "manager"}
  /\ (~ctx.loading /\ ctx.user = "null") => shown = "redirect /signin"
  /\ (~ctx.loading /\ ctx.user # "null" /\ ctx.userRole \notin {"admin", "manager"})
       => shown = "access denied"

\* An employee is signed in, the role has been read, and access is denied.
C4_Witness ==
  /\ ctx.user = "eli" /\ ctx.userRole = "employee" /\ ~ctx.loading
  /\ ProtectedRoute(ctx) = "access denied"

\* C5: whenever ProtectedRoute renders its children, the role stored in
\* users/{uid} of the currently signed-in user is 'admin' or 'manager'.
C5_OnlyAdminsAndManagersGetIn ==
  ProtectedRoute(ctx) = "children" =>
    /\ authUser # "null"
    /\ userDocs[authUser].exists
    /\ userDocs[authUser].role \in {"admin", "manager"}

\* The restaurants a users document makes its user a member of.
Membership(d) == IF d.exists THEN Range(RestaurantIdsOf(d)) ELSE {}

\* C6: whenever a user is signed in and the context is not loading,
\* restaurantId is null or names an existing restaurant of that user's
\* membership.
C6_ContextHoldsOwnScope ==
  (ctx.user # "null" /\ ~ctx.loading) =>
    \/ ctx.restaurantId = "null"
    \/ /\ RestaurantExists(ctx.restaurantId)
       /\ ctx.restaurantId \in Membership(userDocs[ctx.user])

(***************************************************************************)
(* Claims about the Recipes page (checked under SpecRecipes).              *)
(***************************************************************************)
\* C7: a category exists before a recipe references it. Whenever the Recipes
\* client writes a recipe document under category c of restaurant r (create,
\* edit, copy to another venue, import), c is in the names list of r's
\* categories document at the time of the write.
C7_CategoryExistsBeforeRecipeWrite ==
  \A k \in 1..Len(lastWrites) :
    lastWrites[k].op \in {"add", "update"} => lastWrites[k].listed

\* The loaded recipes that carry the fields a creation wrote.
Retrieved(recipes, data) ==
  {recipe \in recipes :
     /\ recipe.category = data.category
     /\ recipe.recipeName = data.recipeName
     /\ recipe.notes = data.notes
     /\ recipe.ingredients = data.ingredients
     /\ recipe.instructions = data.instructions
     /\ recipe.image = ImageArray(data.image)}

\* C8: a created recipe is later retrievable with the same fields. After
\* handleSubmit has succeeded for a new recipe in restaurant r and nothing has
\* been written to r since, a load of the Recipes page for r that has finished
\* its reads (from the backend or from the cache) shows a recipe whose
\* category, recipeName, notes, ingredients, instructions and image equal the
\* values written.
C8_CreatedRecipeIsRetrievable ==
  (created # NoCreated /\ page.restaurantId = created.restaurantId
     /\ ~page.loading /\ page.shown # "none")
    => Retrieved(page.recipes, created.data) # {}

(***************************************************************************)
(* Claims about importRecipes (checked under SpecImport).                  *)
(***************************************************************************)
\* The step is a completed import: importRecipes sets its reload timer.
ImportStep == page'.reloadTimer /\ ~page.reloadTimer

SamePath(d, e) ==
  d.restaurantId = e.restaurantId /\ d.category = e.category /\ d.id = e.id

\* C13: an import only adds recipe documents with new ids. Every recipe
\* document that existed before the import exists unchanged after it, every
\* added document is in the current restaurant at a path no document had, and
\* every name of every category list before the import is in it afterwards.
C13_ImportOnlyAdds ==
  [][ImportStep =>
       /\ recipeDocs \subseteq recipeDocs'
       /\ \A d \in recipeDocs' \ recipeDocs :
            /\ d.restaurantId = page.restaurantId
            /\ \A e \in recipeDocs : ~SamePath(d, e) /\ d.id # e.id
       /\ \A r \in RestaurantIds :
            \A k \in 1..Len(NamesOf(categoriesDocs[r])) :
              Includes(NamesOf(categoriesDocs'[r]), NamesOf(categoriesDocs[r])[k])]_vars

\* An import has just finished in a restaurant that held "stew": the file's
\* recipe, which has the id of "stew" in the file, is there under a new id
\* next to "stew".
C13_Witness ==
  /\ page.reloadTimer
  /\ InitialRecipeDocs \subseteq recipeDocs
  /\ \E d \in recipeDocs :
       /\ d.restaurantId = page.restaurantId
       /\ d.id # 1
       /\ d.data.recipeName = "Imported Recipe"
  /\ \E k \in 1..Len(lastWrites) : lastWrites[k].op = "add"

(***************************************************************************)
(* Claims about handleSubmit (checked under SpecSubmit).                   *)
(***************************************************************************)
\* The step is a handleSubmit that completed without error: it closes the
\* form and reloads the page.
SubmitStep == page.showModal /\ ~page'.showModal /\ recipeOps' # recipeOps

\* The writes of a list that created or updated a recipe document of r.
SavedIn(ws, r) ==
  {k \in 1..Len(ws) : ws[k].restaurantId = r /\ ws[k].op \in {"add", "update"}}

\* C14: a handleSubmit that completes without error has written the recipe to
\* the current restaurant exactly once: the edited document updated when the
\* category is unchanged, one document created otherwise, under the category
\* and with the name of the form; no other document of the current restaurant
\* is created or changed, whatever venues are selected for copying.
C14_SavedToCurrentVenueOnce ==
  [][SubmitStep =>
       LET r == page.restaurantId
           here == SavedIn(lastWrites', r)
           editing == page.editingRecipe # NoRecipe
           moved == editing /\ page.editingRecipe.category # page.formData.category IN
       /\ Cardinality(here) = 1
       /\ \A k \in here :
            /\ lastWrites'[k].category = page.formData.category
            /\ lastWrites'[k].op = IF editing /\ ~moved THEN "update" ELSE "add"
            /\ (editing /\ ~moved) => lastWrites'[k].id = page.editingRecipe.id
            /\ \E d \in recipeDocs' :
                 /\ d.restaurantId = r
                 /\ d.category = page.formData.category
                 /\ d.id = lastWrites'[k].id
                 /\ d.data.recipeName = page.formData.recipeName
       /\ Cardinality({d \in recipeDocs' : d.restaurantId = r} \ recipeDocs) <= 1]_vars

\* C15: every recipe document written by handleSubmit has an image array of
\* at least 1 and at most 8 entries, whatever the form holds and whichever
\* stored recipe was opened for editing.
C15_SubmitWritesOneToEightImages ==
  [][SubmitStep =>
       \A k \in 1..Len(lastWrites') :
         lastWrites'[k].op \in {"add", "update"} =>
           \A d \in DocAt(recipeDocs', lastWrites'[k].restaurantId,
                          lastWrites'[k].category, lastWrites'[k].id) :
             /\ d.data.image.kind = "array"
             /\ Len(d.data.image.urls) >= 1
             /\ Len(d.data.image.urls) <= 8]_vars

\* A new recipe has been saved to the current restaurant and copied to the
\* other one.
C14_Witness ==
  /\ created # NoCreated
  /\ created.restaurantId = page.restaurantId
  /\ Cardinality(SavedIn(lastWrites, page.restaurantId)) = 1
  /\ \E r \in RestaurantIds \ {page.restaurantId} : SavedIn(lastWrites, r) # {}
  /\ \E d \in recipeDocs : d.restaurantId = page.restaurantId /\ d.id = created.id

(***************************************************************************)
(* Claims about SignUp (checked under SpecSignUp).                         *)
(***************************************************************************)
\* The restaurant IDs a form lists: the primary one and the additional ones
\* that are not blank.
Listed(form) ==
  <<form.restaurantId>>
    \o SelectSeq([k \in 1..Len(form.additionalRestaurantIds) |->
                    Trim(form.additionalRestaurantIds[k])], LAMBDA id : id # "")

InvalidSignUp(form) ==
  \/ form.password # form.confirmPassword
  \/ Len(form.password) < 6
  \/ \E k \in 1..Len(Listed(form)) : Listed(form)[k] \notin RestaurantIds

\* C16: a submission whose passwords differ, whose password has fewer than 6
\* characters or which lists a restaurant ID (primary or additional) that does
\* not exist creates no auth account and no users document and ends with an
\* error message; a submission that succeeds has written a users document
\* whose restaurantIds are the primary ID followed by the additional IDs, all
\* of which exist.
C16_SignUpOnlyForValidInput ==
  [][(signUp' # signUp) =>
       /\ InvalidSignUp(signUp'.form) =>
            /\ authAccounts' = authAccounts
            /\ signUpDocs' = signUpDocs
            /\ ~signUp'.navigated
            /\ signUp'.pc = "idle" => signUp'.error # ""
       /\ signUp'.navigated =>
            /\ signUp.form.email \in authAccounts
            /\ \E d \in signUpDocs' :
                 /\ d.uid = UidOf(signUp.form.email)
                 /\ d.restaurantId = signUp.form.restaurantId
                 /\ d.restaurantIds = Listed(signUp.form)
                 /\ \A k \in 1..Len(d.restaurantIds) : d.restaurantIds[k] \in RestaurantIds]_vars

\* The second submission of the form, which lists an additional restaurant
\* ID, has succeeded.
C16_Witness ==
  /\ signUp.navigated /\ signUp.runs = 2
  /\ authAccounts = InitialAccounts \cup {signUp.form.email}
  /\ \E d \in signUpDocs : d.restaurantIds = <<"cafe", "expiry_cafe">>

(***************************************************************************)
(* Claims about the loading of the Recipes page (checked under             *)
(* SpecLoading).                                                           *)
(***************************************************************************)
\* C18: with restaurantId set, a page that is loading eventually leaves the
\* loading state, whether the restaurant has categories, an empty list or no
\* categories document, and whether its reads succeed or fail.
C18_LoadingEnds == page.loading ~> ~page.loading

(***************************************************************************)
(* Claims about the cache after a modification (checked under SpecSubmit). *)
(***************************************************************************)
\* The recipe documents of restaurant r.
DocsOfRestaurant(docs, r) == {d \in docs : d.restaurantId = r}

\* A step has changed a recipe document or the category list of r.
Modified(r) ==
  \/ DocsOfRestaurant(recipeDocs', r) # DocsOfRestaurant(recipeDocs, r)
  \/ categoriesDocs'[r] # categoriesDocs[r]

\* getCachedData finds no entry for r: the data or the expiry item is missing.
CacheEntryAbsent(ls, r) ==
  GetItem(ls, CACHE_KEY(r)) = NoValue \/ GetItem(ls, CACHE_EXPIRY_KEY(r)) = NoValue

\* C19: after every operation of the page that changed a recipe document or
\* the category list of a restaurant, ended normally or with an error, the
\* cache entry of that restaurant is absent.
C19_CacheClearedAfterModification ==
  [][\A r \in RestaurantIds : Modified(r) => CacheEntryAbsent(localStorage', r)]_vars

(***************************************************************************)
(* Claims about an edit that changes the category (checked under           *)
(* SpecSubmit).                                                            *)
(***************************************************************************)
\* A handleSubmit of an edited recipe whose category was changed, that has
\* made at least one write.
MoveStep ==
  /\ page.showModal
  /\ page.editingRecipe # NoRecipe
  /\ page.editingRecipe.category # page.formData.category
  /\ recipeOps' # recipeOps

\* C20: saving an edited recipe whose category changed deletes the document
\* of the old category first and then creates a document in the new category,
\* without rollback. After a successful save no document is left at the old
\* place and the recipe is under the new category; when the creation fails
\* after the deletion, the old document is gone, no document was created and
\* an alert shows the error.
C20_CategoryChangeHasNoRollback ==
  [][MoveStep =>
       LET r == page.restaurantId
           old == page.editingRecipe
           here == {k \in 1..Len(lastWrites') : lastWrites'[k].restaurantId = r}
           before == DocsOfRestaurant(recipeDocs, r)
           after == DocsOfRestaurant(recipeDocs', r)
           oldDoc == DocAt(recipeDocs, r, old.category, old.id) IN
       /\ lastWrites'[1] = Write("delete", r, old.category, old.id, categoriesDocs)
       /\ DocAt(recipeDocs', r, old.category, old.id) = {}
       /\ IF ~page'.showModal
            THEN /\ Cardinality(here) = 2
                 /\ lastWrites'[2].op = "add"
                 /\ lastWrites'[2].restaurantId = r
                 /\ lastWrites'[2].category = page.formData.category
                 /\ \E d \in after \ before :
                      /\ after = (before \ oldDoc) \cup {d}
                      /\ d.category = page.formData.category
                      /\ d.id = lastWrites'[2].id
                      /\ d.data.recipeName = page.formData.recipeName
                 /\ page'.alert = "none"
            ELSE /\ Len(lastWrites') = 1
                 /\ after = before \ oldDoc
                 /\ recipeDocs' \subseteq recipeDocs
                 /\ page'.alert # "none"]_vars

\* The creation has failed after the deletion: the edited recipe is in no
\* category of the restaurant, the form is still open and the alert is shown.
C20_Witness ==
  /\ page.showModal
  /\ page.editingRecipe # NoRecipe
  /\ page.editingRecipe.category # page.formData.category
  /\ page.alert # "none"
  /\ Len(lastWrites) = 1 /\ lastWrites[1].op = "delete"
  /\ lastWrites[1].id = page.editingRecipe.id
  /\ \A d \in recipeDocs :
       d.restaurantId = page.restaurantId => d.id # page.editingRecipe.id

(***************************************************************************)
(* Claims about racing loads (checked under SpecRace).                     *)
(***************************************************************************)
\* Every load has finished and the page shows a non-empty category list.
Settled == loads = <<>> /\ ~page.loading /\ Len(page.categories) > 0

\* C21: whatever the order in which the pending loads finish, once all have
\* finished the recipes shown are those of the current restaurant under its
\* current category list, and the cache entry stored under the restaurant's
\* key holds that list and those recipes: no older load has overwritten them.
C21_LatestLoadWins ==
  Settled =>
    LET r == page.restaurantId
        latest == RecipesUnder(recipeDocs, r, page.categories)
        cachedData == GetCachedData(localStorage, now, r).result IN
    /\ page.recipes = latest
    /\ cachedData # Null =>
         /\ Sort(cachedData.categories) = Sort(page.categories)
         /\ cachedData.recipes = latest

(***************************************************************************)
(* Claims about the copy to other venues (checked under SpecCopy).         *)
(***************************************************************************)
\* The recipe documents of restaurant t that a step has created.
NewDocs(t) == DocsOfRestaurant(recipeDocs', t) \ DocsOfRestaurant(recipeDocs, t)

\* A call of the copy loop throws for target t: the setDoc of the category
\* list is called only when the category is missing there.
CopyThrows(copyFailed, t) ==
  \/ copyFailed[t] \in {"get", "add"}
  \/ copyFailed[t] = "set"
       /\ ~Includes(NamesOf(categoriesDocs[t]), page.formData.category)

\* C22: when a saved recipe is copied to the selected venues, an error for one
\* target neither undoes the save in the current venue nor keeps the loop
\* from the other targets: the current venue has its one new document, every
\* target processed without error has the category in its list and exactly
\* one new document with the saved data, and a target with an error has none.
C22_CopyFailureIsPerTarget ==
  [][\A copyFailed \in [Venues -> CopyFailures] :
       HandleSubmit("none", copyFailed) =>
         LET r == page.restaurantId
             category == page.formData.category IN
         /\ Cardinality(NewDocs(r)) = 1
         /\ DocsOfRestaurant(recipeDocs, r) \subseteq DocsOfRestaurant(recipeDocs', r)
         /\ \A d \in NewDocs(r) :
              d.category = category /\ d.data.recipeName = page.formData.recipeName
         /\ \A t \in Range(page.selectedRestaurantIds) \ {r} :
              IF CopyThrows(copyFailed, t)
                THEN NewDocs(t) = {}
                ELSE /\ Includes(NamesOf(categoriesDocs'[t]), category)
                     /\ Cardinality(NewDocs(t)) = 1
                     /\ \A d \in NewDocs(t), e \in NewDocs(r) :
                          d.category = category /\ d.data = e.data]_vars

\* A save with two venues ticked has ended: the copy to "expiry_cafe" failed
\* at addDoc after the category was added to its list, and "bistro", which
\* came after it or before it, has its copy next to the one of "cafe".
C22_Witness ==
  /\ ~page.showModal
  /\ created # NoCreated
  /\ \E k \in 1..Len(lastWrites) :
       lastWrites[k].restaurantId = "bistro" /\ lastWrites[k].op = "add"
  /\ \E d \in recipeDocs : d.restaurantId = "cafe" /\ d.id = created.id
  /\ \E d \in recipeDocs : d.restaurantId = "bistro" /\ d.data = created.data
  /\ Includes(NamesOf(categoriesDocs["expiry_cafe"]), "mains")
  /\ DocsOfRestaurant(recipeDocs, "expiry_cafe") = {}

(***************************************************************************)
(* Claims about adding restaurants to an account (checked under            *)
(* SpecMembers).                                                           *)
(***************************************************************************)
\* The restaurant IDs the handler of tab t was to add.
AddedBy(t) ==
  (IF tabs[t].newRestaurantId = "" THEN {} ELSE {tabs[t].newRestaurantId})
    \cup Range(tabs[t].selectedRestaurantIds)

NoDuplicates(q) == \A i, j \in 1..Len(q) : q[i] = q[j] => i = j

\* C23: when two add-restaurant operations on the same user document, for
\* distinct restaurant IDs, have both completed successfully, the user's
\* restaurantIds holds the IDs of both and holds no ID twice.
C23_BothAddsKept ==
  \A t1, t2 \in Tabs :
    ( /\ t1 # t2
      /\ tabs[t1].result = "success" /\ tabs[t2].result = "success"
      /\ tabs[t1].user = tabs[t2].user
      /\ AddedBy(t1) \cap AddedBy(t2) = {} )
    => /\ AddedBy(t1) \cup AddedBy(t2) \subseteq Range(userDocs[tabs[t1].user].restaurantIds)
       /\ NoDuplicates(userDocs[tabs[t1].user].restaurantIds)

\* C24: every users document with a restaurantIds list has its primary
\* restaurantId in that list.
C24_PrimaryStaysInList ==
  \A u \in Uids :
    (userDocs[u].exists /\ userDocs[u].hasList)
      => Includes(userDocs[u].restaurantIds, userDocs[u].restaurantId)

(***************************************************************************)
(* Claims about the Dashboard listeners (checked under SpecDashboard).     *)
(***************************************************************************)
\* C25: after a change of restaurantId, once every listener of the new
\* restaurant has delivered and no callback is pending, stats and
\* recentActivity hold only values of the new restaurant's collections.
C25_OnlyCurrentRestaurantShown ==
  (dash.switches > 0 /\ dash.delivered = Kinds /\ dash.pending = {})
    => /\ \A k \in 1..Len(dash.recentActivity) :
            dash.recentActivity[k].restaurantId = dash.restaurantId
       /\ \A kind \in Counted :
            dash.stats[kind] = ActiveCount(Collection(dash.restaurantId, kind))

(***************************************************************************)
(* Claims about export followed by import (checked under SpecRoundTrip).   *)
(***************************************************************************)
\* The recipes exportRecipes reads for a restaurant: the documents stored
\* under the categories of its names list.
RecipesOf(restaurantId) ==
  {d \in recipeDocs : d.restaurantId = restaurantId
                      /\ Includes(NamesOf(categoriesDocs[restaurantId]), d.category)}

\* The fields a round trip keeps.
SameRecipe(x, data) ==
  /\ data.category = x.category
  /\ data.recipeName = x.recipeName
  /\ data.ingredients = x.ingredients
  /\ data.instructions = x.instructions
  /\ data.notes = x.notes
  /\ data.image = x.image

\* The documents of restaurant b in docs that carry recipe x of a file under
\* the category of x and under another id.
CopiesOf(x, docs, b) ==
  {d \in docs : d.restaurantId = b /\ d.category = x.category /\ d.id # x.id
                /\ SameRecipe(x, d.data)}

NoScope(c) ==
  /\ c.restaurantId = "null"
  /\ c.restaurantName = "null"
  /\ c.userRole = "null"
  /\ c.availableRestaurants = <<>>

\* C27: when the auth state changes to signed out, the context holds no
\* scope of the previous user once the callback has finished: restaurantId,
\* restaurantName and userRole are null and availableRestaurants is empty.
\* The same holds when the callback of a newly signed-in user has finished
\* because the user's document is missing or could not be read.
C27_NoScopeAfterSignOut ==
  [][/\ AuthStateChanged("null") => NoScope(ctx')
     /\ \A k \in 1..Len(callbacks) :
          /\ GetUserDoc(k, FALSE) => NoScope(ctx')
          /\ (GetUserDoc(k, TRUE) /\ ~userDocs[callbacks[k].user].exists)
               => NoScope(ctx')]_vars

====
